---- MODULE Spec2Model ----
(***************************************************************************)
(* Daikin Skyport integration: the vendor client (daikinskyport.py) and    *)
(* the climate entity's state resolution (climate.py).                     *)
(*                                                                         *)
(* A DeviceRecord is a function from field names (strings) to values; a    *)
(* key that the Python dict does not hold is not in the DOMAIN.            *)
(* Temperatures are integers in hundredths of a degree Celsius.            *)
(***************************************************************************)
EXTENDS Integers, Sequences, FiniteSets, TLC

VARIABLES
    thermostats,    \* DaikinSkyport.thermostats: the cached device list
    skip_next,      \* DaikinSkyport.skip_next
    authenticated,  \* DaikinSkyport.authenticated
    access_token,   \* DaikinSkyport.access_token
    refresh_token,  \* DaikinSkyport.refresh_token
    file_based_config, \* DaikinSkyport.file_based_config
    config,         \* the persisted credentials (the file's JSON object, or self.config)
    http,           \* history: the HTTP requests issued by the last client call, in order
    ret,            \* history: the client call that just ended, until its caller returns
    muts,           \* history: mutations that entered make_request since the last update()
    dirty,          \* history: mutation calls since the last poll that stored the device
    raw,            \* resolver harness: a device record as the vendor API sent it
    dev,            \* resolver harness: the record held by the entity
    ent,            \* resolver harness: the entity state resolved from dev
    stage           \* resolver harness: "raw" | "normalized" | "entity"

vars == <<thermostats, skip_next, authenticated, access_token, refresh_token,
          file_based_config, config, http, ret, muts, dirty, raw, dev, ent, stage>>

clientVars == <<thermostats, skip_next, authenticated, access_token,
                refresh_token, file_based_config, config, http, ret, muts, dirty>>

resolverVars == <<raw, dev, ent, stage>>

(***************************************************************************)
(* const.py (imported by both source files, not part of the sources at     *)
(* hand): the vendor's mode codes.                                         *)
(***************************************************************************)
DAIKIN_HVAC_MODE_OFF == 0
DAIKIN_HVAC_MODE_HEAT == 1
DAIKIN_HVAC_MODE_COOL == 2
DAIKIN_HVAC_MODE_AUTO == 3
DAIKIN_HVAC_MODE_AUXHEAT == 4
DAIKIN_HVAC_MODE_DRY == 5
WALL_UNIT_FAN_MODE_DEFAULT == 6
WALL_UNIT_FAN_MODE_VALUES == {6, 7}

\* Python's None where an integer is expected (dict.get without default).
None == 0 - 1

\* Python's None where a string is expected.
NoneStr == "None"

(***************************************************************************)
(* Python dict operations on a DeviceRecord.                               *)
(***************************************************************************)
EmptyRec == [k \in {} |-> 0]

Has(r, k) == k \in DOMAIN r

\* d[k] = v
Put(r, k, v) == [x \in (DOMAIN r) \cup {k} |-> IF x = k THEN v ELSE r[x]]

\* d.get(k, default)
Get(r, k, default) == IF k \in DOMAIN r THEN r[k] ELSE default

\* d.setdefault(k, v)
SetDefault(r, k, v) == IF k \in DOMAIN r THEN r ELSE Put(r, k, v)

\* d.get(k) is False / is True, for a field that holds a JSON boolean
IsFalse(r, k) == (k \in DOMAIN r) /\ (r[k] = FALSE)
IsTrue(r, k) == (k \in DOMAIN r) /\ (r[k] = TRUE)

\* "if k not in d and src in d: d[k] = d[src]"
Backfill(r, k, src) == IF ~Has(r, k) /\ Has(r, src) THEN Put(r, k, r[src]) ELSE r

\* the set of records with at most the one key k, its value drawn from S
Opt(k, S) == {EmptyRec} \cup {Put(EmptyRec, k, v) : v \in S}

\* the union of two records with disjoint keys
Join(r, s) == [x \in (DOMAIN r) \cup (DOMAIN s) |-> IF x \in DOMAIN r THEN r[x] ELSE s[x]]

(***************************************************************************)
(* Device Normalizer (daikinskyport.py)                                    *)
(***************************************************************************)
client_is_wall_unit(d) ==
    (Has(d, "adptSupportedEquipment") /\ d["adptSupportedEquipment"] = "RA")
    \/ Has(d, "iduOperatingMode")

wall_unit_mode(d) ==
    LET op_mode == Get(d, "iduOperatingMode", None) IN
    IF IsFalse(d, "iduOnOff") \/ op_mode = DAIKIN_HVAC_MODE_OFF
        THEN DAIKIN_HVAC_MODE_OFF
    ELSE IF op_mode \in WALL_UNIT_FAN_MODE_VALUES
        THEN WALL_UNIT_FAN_MODE_DEFAULT
    ELSE CASE op_mode = 1 -> DAIKIN_HVAC_MODE_HEAT
           [] op_mode = 2 -> DAIKIN_HVAC_MODE_COOL
           [] op_mode = 3 -> DAIKIN_HVAC_MODE_AUTO
           [] op_mode = 5 -> DAIKIN_HVAC_MODE_DRY
           [] OTHER -> DAIKIN_HVAC_MODE_OFF

wall_unit_fan_speed_key(hvac_mode) ==
    CASE hvac_mode = DAIKIN_HVAC_MODE_HEAT -> "iduHeatFanSpeed"
      [] hvac_mode = DAIKIN_HVAC_MODE_COOL -> "iduCoolFanSpeed"
      [] hvac_mode = DAIKIN_HVAC_MODE_AUTO -> "iduAutoFanSpeed"
      [] hvac_mode = DAIKIN_HVAC_MODE_DRY -> "iduDryFanSpeed"
      [] hvac_mode = WALL_UNIT_FAN_MODE_DEFAULT -> "iduFanModeFanSpeed"
      [] OTHER -> NoneStr

\* the backfills with the home setpoints filled before the active ones
BackfillSetpoints_home_first(d) ==
    LET d1 == Backfill(d, "tempIndoor", "iduRoomTemp")
        d2 == Backfill(d1, "cspHome", "cspActive")
        d3 == Backfill(d2, "hspHome", "hspActive")
        d4 == Backfill(d3, "cspActive", "iduCoolSetpoint")
    IN  Backfill(d4, "hspActive", "iduHeatSetpoint")

\* lines 137-146: the backfills, in the order the code makes them
BackfillSetpoints(d) ==
    LET d1 == Backfill(d, "tempIndoor", "iduRoomTemp")
        d2 == Backfill(d1, "cspActive", "iduCoolSetpoint")
        d3 == Backfill(d2, "hspActive", "iduHeatSetpoint")
        d4 == Backfill(d3, "cspHome", "cspActive")
    IN  Backfill(d4, "hspHome", "hspActive")

\* lines 147-156: the defaulted flags
DefaultFlags(d) ==
    LET d1 == SetDefault(d, "geofencingAway", FALSE)
        d2 == SetDefault(d1, "schedOverride", 0)
        d3 == SetDefault(d2, "schedEnabled", FALSE)
        d4 == SetDefault(d3, "fanCirculate", 0)
        d5 == SetDefault(d4, "fanCirculateSpeed", 0)
        d6 == SetDefault(d5, "nightModeActive", FALSE)
        d7 == SetDefault(d6, "nightModeEnabled", FALSE)
        d8 == SetDefault(d7, "displayLockPIN", 0)
        d9 == SetDefault(d8, "alertMediaAirFilterDays", 0)
    IN  SetDefault(d9, "statFirmware", Get(d9, "adptSWversion", NoneStr))

normalize_device_info(d) ==
    IF DOMAIN d = {} THEN d
    ELSE IF ~client_is_wall_unit(d) THEN d
    ELSE
        LET d1 == Put(d, "device_type", "wall_unit")
            d2 == IF ~Has(d1, "mode") THEN Put(d1, "mode", wall_unit_mode(d1)) ELSE d1
            op_mode == Get(d2, "iduOperatingMode", None)
            d3 == IF IsTrue(d2, "iduOnOff") /\ op_mode \in WALL_UNIT_FAN_MODE_VALUES
                      THEN Put(d2, "wallUnitFanModeValue", op_mode)
                      ELSE SetDefault(d2, "wallUnitFanModeValue", WALL_UNIT_FAN_MODE_DEFAULT)
        IN  DefaultFlags(BackfillSetpoints(d3))

(***************************************************************************)
(* Capability & Mode Resolver (climate.py)                                 *)
(***************************************************************************)
\* homeassistant HVACMode, preset and fan names
HVAC_OFF == "off"
HVAC_HEAT == "heat"
HVAC_COOL == "cool"
HVAC_AUTO == "auto"
HVAC_DRY == "dry"
HVAC_FAN_ONLY == "fan_only"

PRESET_AWAY == "Away"
PRESET_SCHEDULE == "Schedule"
PRESET_MANUAL == "Manual"
PRESET_TEMP_HOLD == "Temp Hold"
PRESET_ECONO == "Econo"
PRESET_BOOST == "Boost"
PRESET_NONE == "none"

FAN_AUTO == "auto"
FAN_ON == "on"
FAN_LOW == "low"
FAN_MEDIUM == "medium"
FAN_HIGH == "high"
FAN_SCHEDULE == "Schedule"

\* ClimateEntityFeature flags, a bit set modelled as a set of names
SUPPORT_FLAGS ==
    {"TARGET_TEMPERATURE", "PRESET_MODE", "TARGET_TEMPERATURE_RANGE",
     "FAN_MODE", "TURN_ON", "TURN_OFF"}

\* DAIKIN_HVAC_TO_HASS.get(daikin_mode, HVACMode.OFF)
DAIKIN_HVAC_TO_HASS(daikin_mode) ==
    CASE daikin_mode = DAIKIN_HVAC_MODE_HEAT -> HVAC_HEAT
      [] daikin_mode = DAIKIN_HVAC_MODE_COOL -> HVAC_COOL
      [] daikin_mode = DAIKIN_HVAC_MODE_AUTO -> HVAC_AUTO
      [] daikin_mode = DAIKIN_HVAC_MODE_DRY -> HVAC_DRY
      [] daikin_mode = DAIKIN_HVAC_MODE_OFF -> HVAC_OFF
      [] daikin_mode = DAIKIN_HVAC_MODE_AUXHEAT -> HVAC_HEAT
      [] OTHER -> HVAC_OFF

\* DAIKIN_FAN_TO_HASS.get(code, default)
DAIKIN_FAN_TO_HASS(code, default) ==
    CASE code = 0 -> FAN_AUTO
      [] code = 1 -> FAN_ON
      [] code = 2 -> FAN_SCHEDULE
      [] code = 3 -> FAN_LOW
      [] code = 4 -> FAN_MEDIUM
      [] code = 5 -> FAN_HIGH
      [] OTHER -> default

\* DAIKIN_FAN_SPEED_TO_HASS.get(code, FAN_LOW)
DAIKIN_FAN_SPEED_TO_HASS(code) ==
    CASE code = 0 -> FAN_LOW
      [] code = 1 -> FAN_MEDIUM
      [] code = 2 -> FAN_HIGH
      [] OTHER -> FAN_LOW

WALL_UNIT_FAN_SPEED_ORDER == <<10, 11, 3, 4, 5, 6, 7>>

WALL_UNIT_FAN_SPEED_CODES == {10, 11, 3, 4, 5, 6, 7}

\* str(n) for a non-negative integer
Digit == <<"0", "1", "2", "3", "4", "5", "6", "7", "8", "9">>

RECURSIVE Str(_)
Str(n) == IF n < 10 THEN Digit[n + 1] ELSE Str(n \div 10) \o Digit[(n % 10) + 1]

\* the table without its entry for code 11
WALL_UNIT_FAN_SPEED_TO_HASS_no_quiet(code) ==
    CASE code = 10 -> "auto"
      [] code = 3 -> "low"
      [] code = 4 -> "medium_low"
      [] code = 5 -> "medium"
      [] code = 6 -> "medium_high"
      [] code = 7 -> "high"
      [] OTHER -> Str(code)

\* WALL_UNIT_FAN_SPEED_TO_HASS.get(code, str(code))
WALL_UNIT_FAN_SPEED_TO_HASS(code) ==
    CASE code = 10 -> "auto"
      [] code = 11 -> "quiet"
      [] code = 3 -> "low"
      [] code = 4 -> "medium_low"
      [] code = 5 -> "medium"
      [] code = 6 -> "medium_high"
      [] code = 7 -> "high"
      [] OTHER -> Str(code)

\* module-level _is_wall_unit(thermostat)
is_wall_unit(t) ==
    (Has(t, "device_type") /\ t["device_type"] = "wall_unit")
    \/ (Has(t, "adptSupportedEquipment") /\ t["adptSupportedEquipment"] = "RA")
    \/ Has(t, "iduOperatingMode")

\* Thermostat._build_wall_unit_operation_list
build_wall_unit_operation_list(t) ==
    LET m1 == IF Has(t, "iduHeatSetpoint") THEN <<HVAC_HEAT>> ELSE <<>>
        m2 == IF Has(t, "iduCoolSetpoint") THEN Append(m1, HVAC_COOL) ELSE m1
        m3 == IF Has(t, "iduAutoSetpoint") THEN <<HVAC_AUTO>> \o m2 ELSE m2
        m4 == IF Has(t, "iduDryFanSpeed") \/ Get(t, "iduOperatingMode", None) = 5
                  THEN Append(m3, HVAC_DRY) ELSE m3
        m5 == IF Has(t, "iduFanModeFanSpeed")
                 \/ Get(t, "iduOperatingMode", None) \in WALL_UNIT_FAN_MODE_VALUES
                  THEN Append(m4, HVAC_FAN_ONLY) ELSE m4
    IN  Append(m5, HVAC_OFF)

\* the operation list with Auto offered as soon as one of Heat and Cool is
central_operation_list_auto_alone(t) ==
    LET m1 == IF Has(t, "ctSystemCapHeat") /\ t["ctSystemCapHeat"] = TRUE
                  THEN <<HVAC_HEAT>> ELSE <<>>
        m2 == IF (Has(t, "ctOutdoorNoofCoolStages") /\ t["ctOutdoorNoofCoolStages"] > 0)
                 \/ IsTrue(t, "P1P2S21CoolingCapability")
                  THEN Append(m1, HVAC_COOL) ELSE m1
        m3 == IF Len(m2) >= 1 THEN <<HVAC_AUTO>> \o m2 ELSE m2
    IN  Append(m3, HVAC_OFF)

\* Thermostat._configure_capabilities, the Central branch's operation list
central_operation_list(t) ==
    LET m1 == IF Has(t, "ctSystemCapHeat") /\ t["ctSystemCapHeat"] = TRUE
                  THEN <<HVAC_HEAT>> ELSE <<>>
        m2 == IF (Has(t, "ctOutdoorNoofCoolStages") /\ t["ctOutdoorNoofCoolStages"] > 0)
                 \/ IsTrue(t, "P1P2S21CoolingCapability")
                  THEN Append(m1, HVAC_COOL) ELSE m1
        m3 == IF Len(m2) = 2 THEN <<HVAC_AUTO>> \o m2 ELSE m2
    IN  Append(m3, HVAC_OFF)

\* Thermostat._configure_capabilities: the attributes it sets
configure_capabilities(t) ==
    IF is_wall_unit(t)
    THEN [is_wall_unit |-> TRUE,
          base_supported_features |-> {"TARGET_TEMPERATURE", "FAN_MODE", "PRESET_MODE"},
          operation_list |-> build_wall_unit_operation_list(t),
          preset_modes |-> {PRESET_ECONO, PRESET_NONE}
              \cup (IF Has(t, "oduPowerfulOperationRequest") THEN {PRESET_BOOST} ELSE {}),
          fan_modes |-> <<>>]
    ELSE [is_wall_unit |-> FALSE,
          base_supported_features |-> SUPPORT_FLAGS,
          operation_list |-> central_operation_list(t),
          preset_modes |-> {PRESET_SCHEDULE, PRESET_MANUAL, PRESET_TEMP_HOLD, PRESET_AWAY},
          fan_modes |-> <<FAN_AUTO, FAN_ON, FAN_LOW, FAN_MEDIUM, FAN_HIGH, FAN_SCHEDULE>>]

\* the mode resolved from the mode codes alone, iduOnOff not consulted
wall_unit_hvac_mode_codes_only(t) ==
    LET m == Get(t, "mode", None)
        daikin_mode == IF m = None THEN Get(t, "iduOperatingMode", None) ELSE m
    IN  IF daikin_mode \in WALL_UNIT_FAN_MODE_VALUES THEN HVAC_FAN_ONLY
        ELSE DAIKIN_HVAC_TO_HASS(daikin_mode)

\* Thermostat._wall_unit_hvac_mode
wall_unit_hvac_mode(t) ==
    LET m == Get(t, "mode", None)
        daikin_mode == IF m = None THEN Get(t, "iduOperatingMode", None) ELSE m
    IN  IF IsFalse(t, "iduOnOff") THEN HVAC_OFF
        ELSE IF daikin_mode \in WALL_UNIT_FAN_MODE_VALUES THEN HVAC_FAN_ONLY
        ELSE DAIKIN_HVAC_TO_HASS(daikin_mode)

\* Thermostat._wall_unit_operating_mode (NoneStr for None)
wall_unit_operating_mode(t) ==
    LET op_mode == Get(t, "iduOperatingMode", None) IN
    CASE op_mode \in WALL_UNIT_FAN_MODE_VALUES -> HVAC_FAN_ONLY
      [] op_mode \notin WALL_UNIT_FAN_MODE_VALUES /\ op_mode = 1 -> HVAC_HEAT
      [] op_mode \notin WALL_UNIT_FAN_MODE_VALUES /\ op_mode = 2 -> HVAC_COOL
      [] op_mode \notin WALL_UNIT_FAN_MODE_VALUES /\ op_mode = 3 -> HVAC_AUTO
      [] op_mode \notin WALL_UNIT_FAN_MODE_VALUES /\ op_mode = 5 -> HVAC_DRY
      [] OTHER -> NoneStr

\* Thermostat._wall_unit_fan_speed_key (NoneStr for None)
entity_wall_unit_fan_speed_key(hvac_mode) ==
    CASE hvac_mode = HVAC_HEAT -> "iduHeatFanSpeed"
      [] hvac_mode = HVAC_COOL -> "iduCoolFanSpeed"
      [] hvac_mode = HVAC_AUTO -> "iduAutoFanSpeed"
      [] hvac_mode = HVAC_DRY -> "iduDryFanSpeed"
      [] hvac_mode = HVAC_FAN_ONLY -> "iduFanModeFanSpeed"
      [] OTHER -> NoneStr

\* Thermostat._wall_unit_fan_speed, given the entity's current hvac_mode
wall_unit_fan_speed(t, current_mode) ==
    LET hvac_mode == IF current_mode = HVAC_OFF THEN wall_unit_operating_mode(t)
                     ELSE current_mode
        fan_key == entity_wall_unit_fan_speed_key(hvac_mode)
    IN  IF hvac_mode = NoneStr \/ fan_key = NoneStr THEN None
        ELSE Get(t, fan_key, None)

\* sorted(S) for a finite set of integers
RECURSIVE Sorted(_)
Sorted(S) ==
    IF S = {} THEN <<>>
    ELSE LET m == CHOOSE x \in S : \A y \in S : x <= y
         IN  <<m>> \o Sorted(S \ {m})

\* [f(x) for x in seq if x in S]
RECURSIVE LabelsOf(_, _)
LabelsOf(seq, S) ==
    IF seq = <<>> THEN <<>>
    ELSE (IF Head(seq) \in S THEN <<WALL_UNIT_FAN_SPEED_TO_HASS(Head(seq))>> ELSE <<>>)
         \o LabelsOf(Tail(seq), S)

RECURSIVE StrAll(_)
StrAll(seq) == IF seq = <<>> THEN <<>> ELSE <<Str(Head(seq))>> \o StrAll(Tail(seq))

WALL_UNIT_FAN_SPEED_KEYS ==
    {"iduHeatFanSpeed", "iduCoolFanSpeed", "iduAutoFanSpeed", "iduDryFanSpeed",
     "iduFanModeFanSpeed"}

\* lines 585-606: the fan-mode choices of a wall unit
wall_unit_fan_modes(t) ==
    LET fan_values_set == {t[k] : k \in WALL_UNIT_FAN_SPEED_KEYS \cap DOMAIN t}
        known == IF Has(t, "iduFanModeFanSpeed")
                     THEN LabelsOf(WALL_UNIT_FAN_SPEED_ORDER, WALL_UNIT_FAN_SPEED_CODES)
                     ELSE LabelsOf(WALL_UNIT_FAN_SPEED_ORDER, fan_values_set)
        unknown_values == Sorted(fan_values_set \ WALL_UNIT_FAN_SPEED_CODES)
    IN  known \o StrAll(unknown_values)

\* the feature flags with nothing cleared for the Dry mode
refresh_supported_features_keeps_dry(base, fan_modes, wall, hvac_mode) ==
    IF fan_modes = <<>> THEN base \ {"FAN_MODE"} ELSE base

\* Thermostat._refresh_supported_features_for_mode
refresh_supported_features_for_mode(base, fan_modes, wall, hvac_mode) ==
    LET f1 == IF fan_modes = <<>> THEN base \ {"FAN_MODE"} ELSE base
    IN  IF wall /\ hvac_mode = HVAC_DRY
            THEN f1 \ {"TARGET_TEMPERATURE", "TARGET_TEMPERATURE_RANGE", "FAN_MODE"}
            ELSE f1

\* Python truthiness of d.get(k) for a boolean field
Truthy(t, k) == Has(t, k) /\ t[k] = TRUE

\* Thermostat._apply_thermostat_state, wall-unit branch (lines 562-612)
apply_wall_unit_state(t, caps) ==
    LET hvac_mode == wall_unit_hvac_mode(t)
        cool_setpoint == Get(t, "iduCoolSetpoint", Get(t, "cspActive", None))
        heat_setpoint == Get(t, "iduHeatSetpoint", Get(t, "hspActive", None))
        explicit == Get(t, "iduTargetTemp", None)
        target_temp ==
            IF explicit # None THEN explicit
            ELSE IF hvac_mode = HVAC_HEAT THEN heat_setpoint
            ELSE IF hvac_mode = HVAC_COOL THEN cool_setpoint
            ELSE Get(t, "iduAutoSetpoint",
                     IF cool_setpoint # None /\ cool_setpoint # 0
                         THEN cool_setpoint ELSE heat_setpoint)
        preset_mode ==
            IF Truthy(t, "oduPowerfulOperationRequest") THEN PRESET_BOOST
            ELSE IF Truthy(t, "iduEconoModeSetting") THEN PRESET_ECONO
            ELSE PRESET_NONE
        fan_speed == wall_unit_fan_speed(t, hvac_mode)
        fan_mode == IF fan_speed # None THEN WALL_UNIT_FAN_SPEED_TO_HASS(fan_speed)
                    ELSE NoneStr
        fan_modes == IF hvac_mode = HVAC_DRY THEN <<>> ELSE wall_unit_fan_modes(t)
    IN  [is_wall_unit |-> TRUE,
         operation_list |-> caps.operation_list,
         preset_modes |-> caps.preset_modes,
         base_supported_features |-> caps.base_supported_features,
         hvac_mode |-> hvac_mode,
         cool_setpoint |-> cool_setpoint,
         heat_setpoint |-> heat_setpoint,
         target_temp |-> target_temp,
         preset_mode |-> preset_mode,
         fan_mode |-> IF hvac_mode = HVAC_DRY THEN NoneStr ELSE fan_mode,
         fan_modes |-> fan_modes,
         fan_speed |-> NoneStr,
         supported_features |->
             refresh_supported_features_for_mode(caps.base_supported_features,
                                                 fan_modes, TRUE, hvac_mode)]

\* the Central branch with the temporary hold tested before the away flag
apply_central_state_hold_first(t, caps) ==
    LET hvac_mode == DAIKIN_HVAC_TO_HASS(Get(t, "mode", DAIKIN_HVAC_MODE_OFF))
        fan_circulate == Get(t, "fanCirculate", 0)
        fan_speed == Get(t, "fanCirculateSpeed", 0)
        fan_mode == IF DAIKIN_FAN_TO_HASS(fan_circulate, NoneStr) = FAN_ON
                        THEN DAIKIN_FAN_TO_HASS(fan_speed + 3, FAN_ON)
                        ELSE DAIKIN_FAN_TO_HASS(fan_circulate, FAN_AUTO)
        preset_mode ==
            IF Get(t, "schedOverride", None) = 1 THEN PRESET_TEMP_HOLD
            ELSE IF Truthy(t, "geofencingAway") THEN PRESET_AWAY
            ELSE IF Truthy(t, "schedEnabled") THEN PRESET_SCHEDULE
            ELSE PRESET_MANUAL
    IN  [is_wall_unit |-> FALSE,
         operation_list |-> caps.operation_list,
         preset_modes |-> caps.preset_modes,
         base_supported_features |-> caps.base_supported_features,
         hvac_mode |-> hvac_mode,
         cool_setpoint |-> Get(t, "cspActive", None),
         heat_setpoint |-> Get(t, "hspActive", None),
         target_temp |-> None,
         preset_mode |-> preset_mode,
         fan_mode |-> fan_mode,
         fan_modes |-> caps.fan_modes,
         fan_speed |-> DAIKIN_FAN_SPEED_TO_HASS(fan_speed),
         supported_features |->
             refresh_supported_features_for_mode(caps.base_supported_features,
                                                 caps.fan_modes, FALSE, hvac_mode)]

\* Thermostat._apply_thermostat_state, Central branch (lines 614-636)
apply_central_state(t, caps) ==
    LET hvac_mode == DAIKIN_HVAC_TO_HASS(Get(t, "mode", DAIKIN_HVAC_MODE_OFF))
        fan_circulate == Get(t, "fanCirculate", 0)
        fan_speed == Get(t, "fanCirculateSpeed", 0)
        fan_mode == IF DAIKIN_FAN_TO_HASS(fan_circulate, NoneStr) = FAN_ON
                        THEN DAIKIN_FAN_TO_HASS(fan_speed + 3, FAN_ON)
                        ELSE DAIKIN_FAN_TO_HASS(fan_circulate, FAN_AUTO)
        preset_mode ==
            IF Truthy(t, "geofencingAway") THEN PRESET_AWAY
            ELSE IF Get(t, "schedOverride", None) = 1 THEN PRESET_TEMP_HOLD
            ELSE IF Truthy(t, "schedEnabled") THEN PRESET_SCHEDULE
            ELSE PRESET_MANUAL
    IN  [is_wall_unit |-> FALSE,
         operation_list |-> caps.operation_list,
         preset_modes |-> caps.preset_modes,
         base_supported_features |-> caps.base_supported_features,
         hvac_mode |-> hvac_mode,
         cool_setpoint |-> Get(t, "cspActive", None),
         heat_setpoint |-> Get(t, "hspActive", None),
         target_temp |-> None,
         preset_mode |-> preset_mode,
         fan_mode |-> fan_mode,
         fan_modes |-> caps.fan_modes,
         fan_speed |-> DAIKIN_FAN_SPEED_TO_HASS(fan_speed),
         supported_features |->
             refresh_supported_features_for_mode(caps.base_supported_features,
                                                 caps.fan_modes, FALSE, hvac_mode)]

\* Thermostat._apply_thermostat_state after _configure_capabilities
apply_thermostat_state(t) ==
    LET caps == configure_capabilities(t) IN
    IF caps.is_wall_unit THEN apply_wall_unit_state(t, caps)
    ELSE apply_central_state(t, caps)

\* Thermostat.target_temperature_low of an entity e
target_temperature_low(e) ==
    IF e.is_wall_unit THEN None
    ELSE IF e.hvac_mode = HVAC_AUTO THEN e.heat_setpoint
    ELSE None

\* Thermostat.target_temperature_high
target_temperature_high(e) ==
    IF e.is_wall_unit THEN None
    ELSE IF e.hvac_mode = HVAC_AUTO THEN e.cool_setpoint
    ELSE None

\* the target with the cool setpoint reported as the single target in Auto
target_temperature_cool_in_auto(e) ==
    IF e.is_wall_unit
        THEN IF e.hvac_mode = HVAC_DRY THEN None ELSE e.target_temp
    ELSE IF e.hvac_mode = HVAC_AUTO THEN e.cool_setpoint
    ELSE IF e.hvac_mode = HVAC_HEAT THEN e.heat_setpoint
    ELSE IF e.hvac_mode = HVAC_COOL THEN e.cool_setpoint
    ELSE None

\* Thermostat.target_temperature
target_temperature(e) ==
    IF e.is_wall_unit
        THEN IF e.hvac_mode = HVAC_DRY THEN None ELSE e.target_temp
    ELSE IF e.hvac_mode = HVAC_AUTO THEN None
    ELSE IF e.hvac_mode = HVAC_HEAT THEN e.heat_setpoint
    ELSE IF e.hvac_mode = HVAC_COOL THEN e.cool_setpoint
    ELSE None


(***************************************************************************)
(* Resolver harness: a record as the vendor API may send it is normalized  *)
(* (get_thermostat_info), stored with its list entry's id, name and model  *)
(* (get_thermostats), and an entity is constructed on it                   *)
(* (Thermostat.__init__).                                                  *)
(***************************************************************************)
\* the largest operating-mode code the vendor sends in a harness record
MaxModeCode == 7

\* the largest outdoor cool-stage count in a harness record
MaxCoolStages == 2

ModeCodes == 0..MaxModeCode

\* records of the wall-unit family: "RA" equipment or an iduOperatingMode key
WallUnitRaw ==
    { Join(a, Join(b, Join(c, Join(e, Join(f, Join(g, Join(h, Join(i,
        Join(j, Join(k, Put(EmptyRec, "iduRoomTemp", 2210))))))))))) :
        a \in Opt("adptSupportedEquipment", {"RA"}),
        b \in Opt("iduOperatingMode", ModeCodes),
        c \in Opt("iduOnOff", BOOLEAN),
        e \in Opt("mode", ModeCodes),
        f \in Opt("wallUnitFanModeValue", {7}),
        g \in Opt("iduCoolSetpoint", {2400}),
        h \in Opt("cspActive", {2450}),
        i \in Opt("cspHome", {2500}),
        j \in Opt("iduHeatSetpoint", {2000}),
        k \in Opt("adptSWversion", {"2.0"}) }

\* records of the Central family
CentralRaw ==
    { Join(a, Join(b, Join(c, Join(e, Join(f, Join(g, Join(h,
        [cspActive |-> 2400, hspActive |-> 1800]))))))) :
        a \in Opt("ctSystemCapHeat", BOOLEAN),
        b \in Opt("ctOutdoorNoofCoolStages", 0..MaxCoolStages),
        c \in Opt("P1P2S21CoolingCapability", BOOLEAN),
        e \in Opt("mode", ModeCodes),
        f \in Opt("geofencingAway", BOOLEAN),
        g \in Opt("schedOverride", {0, 1}),
        h \in Opt("schedEnabled", BOOLEAN) }

\* the largest fan-speed code the vendor sends in a harness record
MaxFanSpeedCode == 12

\* wall units with one per-mode fan-speed field, with or without the
\* fan-only speed field beside it
WallUnitFanRaw ==
    { Join(a, Join(b, Join(c, Join(e,
        [adptSupportedEquipment |-> "RA", iduRoomTemp |-> 2210,
         iduCoolSetpoint |-> 2400, iduHeatSetpoint |-> 2000])))) :
        a \in Opt("iduOnOff", BOOLEAN),
        b \in Opt("iduOperatingMode", ModeCodes),
        c \in {Put(EmptyRec, k, v) : k \in WALL_UNIT_FAN_SPEED_KEYS \ {"iduFanModeFanSpeed"},
                                      v \in 0..MaxFanSpeedCode},
        e \in Opt("iduFanModeFanSpeed", {3, MaxFanSpeedCode}) }

RawRecords ==
    {r \in WallUnitRaw : client_is_wall_unit(r)} \cup CentralRaw \cup WallUnitFanRaw

\* the list entry of the harness device
HarnessEntry == [id |-> "dev-1", name |-> "Living room", model |-> "ONEPLUS"]

NoEntity == EmptyRec

ResolverIdle ==
    /\ raw = EmptyRec
    /\ dev = EmptyRec
    /\ ent = NoEntity
    /\ stage = "idle"

\* DaikinSkyport.__init__ with a config that holds credentials and tokens
ClientConstructed ==
    /\ thermostats = <<>>
    /\ skip_next = FALSE
    /\ authenticated = FALSE
    /\ access_token = "tok0"
    /\ refresh_token = "ref0"
    /\ config = [EMAIL |-> "user@example.org", PASSWORD |-> "secret",
                 ACCESS_TOKEN |-> "tok0", REFRESH_TOKEN |-> "ref0"]
    /\ http = <<>>
    /\ ret = [op |-> "idle", kind |-> "idle"]
    /\ muts = 0
    /\ dirty = 0

ResolverInit ==
    /\ raw \in RawRecords
    /\ dev = EmptyRec
    /\ ent = NoEntity
    /\ stage = "raw"
    /\ file_based_config = FALSE
    /\ ClientConstructed

\* get_thermostat_info, line 275, then get_thermostats, lines 231-233
FetchDetail ==
    /\ stage = "raw"
    /\ dev' = Put(Put(Put(normalize_device_info(raw), "name", HarnessEntry.name),
                      "id", HarnessEntry.id), "model", HarnessEntry.model)
    /\ stage' = "normalized"
    /\ UNCHANGED <<raw, ent>>
    /\ UNCHANGED clientVars

\* Thermostat.__init__: _configure_capabilities, then _apply_thermostat_state
Construct ==
    /\ stage = "normalized"
    /\ ent' = apply_thermostat_state(dev)
    /\ stage' = "entity"
    /\ UNCHANGED <<raw, dev>>
    /\ UNCHANGED clientVars

ResolverNext == FetchDetail \/ Construct

SpecResolver == ResolverInit /\ [][ResolverNext]_vars


(***************************************************************************)
(* Vendor Client (daikinskyport.py)                                        *)
(*                                                                         *)
(* A client operation is an operator from the client's state c (a record   *)
(* of the attributes of the DaikinSkyport object, with the log of HTTP     *)
(* requests issued so far) and the server's answers srv to a record        *)
(* [c |-> the state it leaves, result |-> what it returns], where result   *)
(* is "ok" (a response object or other value), "None", "True", "False" or  *)
(* "raise:<Exception>".                                                    *)
(***************************************************************************)
\* Python values passed positionally to make_request
PyInt(n) == [t |-> "int", v |-> n]
PyDict(d) == [t |-> "dict", v |-> d]
PyStr(x) == [t |-> "str", v |-> x]

Raises(r) == r.result \notin {"ok", "None", "True", "False"}

Client ==
    [thermostats |-> thermostats, skip_next |-> skip_next,
     authenticated |-> authenticated, access_token |-> access_token,
     refresh_token |-> refresh_token, file_based_config |-> file_based_config,
     config |-> config, http |-> <<>>]

\* a request as issued, with the status the server answered ("conn": no answer)
Request(method, path, device, body, action, token, status) ==
    [method |-> method, path |-> path, device |-> device, body |-> body,
     action |-> action, token |-> token, status |-> status]

Log(c, rq) == [c EXCEPT !.http = Append(@, rq)]

\* write_tokens_to_file: __init__ never assigns self.config_filename
write_tokens_to_file(c) ==
    LET cfg == [ACCESS_TOKEN |-> c.access_token, REFRESH_TOKEN |-> c.refresh_token,
                EMAIL |-> c.config.EMAIL]
    IN  IF c.file_based_config
            THEN [c |-> c, result |-> "raise:AttributeError"]
            ELSE [c |-> [c EXCEPT !.config = cfg], result |-> "None"]

\* request_tokens: POST /users/auth/login
request_tokens(c, srv) ==
    LET c1 == Log(c, Request("POST", "/users/auth/login", NoneStr, PyDict(EmptyRec),
                             NoneStr, NoneStr, srv.login))
    IN  CASE srv.login = "conn" -> [c |-> c1, result |-> "False"]
          [] srv.login = "200" ->
                LET c2 == [c1 EXCEPT !.access_token = srv.new_access,
                                     !.refresh_token = srv.new_refresh]
                IN  IF c2.file_based_config
                        THEN LET w == write_tokens_to_file(c2)
                             IN  IF Raises(w) THEN w ELSE [c |-> w.c, result |-> "ok"]
                        ELSE [c |-> c2, result |-> "ok"]
          [] srv.login = "200_no_refresh_token" ->
                [c |-> [c1 EXCEPT !.access_token = srv.new_access,
                                  !.refresh_token = NoneStr],
                 result |-> "None"]
          [] OTHER -> [c |-> c1, result |-> "False"]

\* line 203: "if result is not None"
ResultIsNotNone(result) == result # "None"

\* refresh_tokens: POST /users/auth/token, falling back to request_tokens
refresh_tokens(c, srv) ==
    LET c1 == Log(c, Request("POST", "/users/auth/token", NoneStr, PyDict(EmptyRec),
                             NoneStr, NoneStr, srv.refresh))
    IN  CASE srv.refresh = "conn" -> [c |-> c1, result |-> "raise:RequestException"]
          [] srv.refresh = "200" ->
                LET c2 == [c1 EXCEPT !.access_token = srv.new_access]
                IN  IF c2.file_based_config
                        THEN LET w == write_tokens_to_file(c2)
                             IN  IF Raises(w) THEN w ELSE [c |-> w.c, result |-> "True"]
                        ELSE [c |-> c2, result |-> "True"]
          [] OTHER ->
                LET rq == request_tokens(c1, srv)
                IN  IF Raises(rq) THEN rq
                    ELSE IF ResultIsNotNone(rq.result) THEN [c |-> rq.c, result |-> "True"]
                    ELSE [c |-> rq.c, result |-> "False"]

\* line 419: "retry_count == 0"
RetryAllowed(retry_count) == retry_count = 0

\* lines 422-423: the positional arguments of the retry,
\* self.make_request(body, deviceID, log_msg_action, ...)
RetryArgs(index, body, deviceID, log_msg_action) ==
    <<body, PyStr(deviceID), log_msg_action>>

\* the server's answer to the n-th PUT of a call
PutAnswer(srv, n) == srv.put[IF n <= Len(srv.put) THEN n ELSE Len(srv.put)]

\* make_request retrying with (index, body, log_msg_action) for as long as the
\* server answers authorization_expired, up to three PUTs
RECURSIVE make_request_retrying(_, _, _, _, _, _)
make_request_retrying(c, index, body, log_msg_action, retry_count, srv) ==
    LET c1 == [c EXCEPT !.skip_next = TRUE] IN
    IF index.t # "int" THEN [c |-> c1, result |-> "raise:TypeError"]
    ELSE IF index.v < 0 \/ index.v >= Len(c1.thermostats)
        THEN [c |-> c1, result |-> "raise:IndexError"]
    ELSE
        LET deviceID == c1.thermostats[index.v + 1]["id"]
            resp == PutAnswer(srv, retry_count + 1)
            c2 == Log(c1, Request("PUT", "/deviceData", deviceID, body,
                                  log_msg_action, c1.access_token, resp))
        IN  CASE resp = "conn" -> [c |-> c2, result |-> "None"]
              [] resp = "200" -> [c |-> c2, result |-> "ok"]
              [] resp = "401_expired" /\ retry_count < 2 ->
                    LET rt == refresh_tokens(c2, srv)
                    IN  IF Raises(rt) THEN rt
                        ELSE IF rt.result = "True"
                            THEN make_request_retrying(rt.c, index, body, log_msg_action,
                                                       retry_count + 1, srv)
                        ELSE [c |-> rt.c, result |-> "None"]
              [] OTHER -> [c |-> c2, result |-> "None"]

\* make_request(index, body, log_msg_action, *, retry_count)
RECURSIVE make_request(_, _, _, _, _, _)
make_request(c, index, body, log_msg_action, retry_count, srv) ==
    LET c1 == [c EXCEPT !.skip_next = TRUE] IN
    IF index.t # "int" THEN [c |-> c1, result |-> "raise:TypeError"]
    ELSE IF index.v < 0 \/ index.v >= Len(c1.thermostats)
        THEN [c |-> c1, result |-> "raise:IndexError"]
    ELSE
        LET deviceID == c1.thermostats[index.v + 1]["id"]
            resp == PutAnswer(srv, retry_count + 1)
            c2 == Log(c1, Request("PUT", "/deviceData", deviceID, body,
                                  log_msg_action, c1.access_token, resp))
        IN  CASE resp = "conn" -> [c |-> c2, result |-> "None"]
              [] resp = "200" -> [c |-> c2, result |-> "ok"]
              [] resp = "401_expired" /\ RetryAllowed(retry_count) ->
                    LET rt == refresh_tokens(c2, srv)
                        a == RetryArgs(index, body, deviceID, log_msg_action)
                    IN  IF Raises(rt) THEN rt
                        ELSE IF rt.result = "True"
                            THEN make_request(rt.c, a[1], a[2], a[3], retry_count + 1, srv)
                        ELSE [c |-> rt.c, result |-> "None"]
              [] OTHER -> [c |-> c2, result |-> "None"]

\* get_thermostat_info that treats the offline answer as any other error
get_thermostat_info_offline_raises(c, deviceid, answer) ==
    LET c1 == Log(c, Request("GET", "/deviceData", deviceid, PyDict(EmptyRec),
                             NoneStr, c.access_token, answer.kind))
    IN  CASE answer.kind = "conn" ->
                [c |-> c1, result |-> "raise:RequestException", info |-> EmptyRec]
          [] answer.kind = "ok" ->
                [c |-> [c1 EXCEPT !.authenticated = TRUE], result |-> "ok",
                 info |-> normalize_device_info(answer.data)]
          [] OTHER ->
                [c |-> [c1 EXCEPT !.authenticated = FALSE],
                 result |-> "raise:ExpiredTokenError", info |-> EmptyRec]

\* get_thermostat_info(deviceid): GET /deviceData/{id}
get_thermostat_info(c, deviceid, answer) ==
    LET c1 == Log(c, Request("GET", "/deviceData", deviceid, PyDict(EmptyRec),
                             NoneStr, c.access_token, answer.kind))
    IN  CASE answer.kind = "conn" ->
                [c |-> c1, result |-> "raise:RequestException", info |-> EmptyRec]
          [] answer.kind = "offline" ->
                [c |-> [c1 EXCEPT !.authenticated = TRUE], result |-> "None",
                 info |-> EmptyRec]
          [] answer.kind = "ok" ->
                [c |-> [c1 EXCEPT !.authenticated = TRUE], result |-> "ok",
                 info |-> normalize_device_info(answer.data)]
          [] OTHER ->
                [c |-> [c1 EXCEPT !.authenticated = FALSE],
                 result |-> "raise:ExpiredTokenError", info |-> EmptyRec]

\* the record put first whether or not its id is held
StoreThermostat_prepend(list, info) == <<info>> \o list

\* lines 234-239: overwrite every entry with the id, or append
StoreThermostat(list, info) ==
    IF \E i \in 1..Len(list) : list[i]["id"] = info["id"]
        THEN [i \in 1..Len(list) |-> IF list[i]["id"] = info["id"] THEN info ELSE list[i]]
        ELSE Append(list, info)

\* lines 226-239: the loop over self.thermostatlist, from position i
RECURSIVE FetchAll(_, _, _)
FetchAll(c, srv, i) ==
    IF i > Len(srv.list) THEN [c |-> c, result |-> "ok"]
    ELSE
        LET thermostat == srv.list[i]
            got == get_thermostat_info(c, thermostat.id, srv.detail[i])
        IN  IF Raises(got) THEN [c |-> got.c, result |-> got.result]
            ELSE IF got.result = "None" THEN FetchAll(got.c, srv, i + 1)
            ELSE
                LET info == Put(Put(Put(got.info, "name", thermostat.name),
                                    "id", thermostat.id), "model", thermostat.model)
                IN  FetchAll([got.c EXCEPT !.thermostats = StoreThermostat(@, info)],
                             srv, i + 1)

\* get_thermostats: GET /devices, then every device's detail
get_thermostats(c, srv) ==
    LET c1 == Log(c, Request("GET", "/devices", NoneStr, PyDict(EmptyRec), NoneStr,
                             c.access_token, srv.devices))
    IN  CASE srv.devices = "conn" -> [c |-> c1, result |-> "None"]
          [] srv.devices = "200" -> FetchAll([c1 EXCEPT !.authenticated = TRUE], srv, 1)
          [] OTHER -> [c |-> [c1 EXCEPT !.authenticated = FALSE],
                       result |-> "raise:ExpiredTokenError"]

\* update() that leaves skip_next set when it skips
update_keeps_flag(c, srv) ==
    IF c.skip_next THEN [c |-> c, result |-> "None"]
    ELSE get_thermostats(c, srv)

\* update()
update(c, srv) ==
    IF c.skip_next THEN [c |-> [c EXCEPT !.skip_next = FALSE], result |-> "None"]
    ELSE get_thermostats(c, srv)


(***************************************************************************)
(* The mutation entry points.  Each returns [c, result, reached]: reached  *)
(* says whether the call entered make_request.                             *)
(***************************************************************************)
Direct(c, result) == [c |-> c, result |-> result, reached |-> FALSE]

Via(r) == [c |-> r.c, result |-> r.result, reached |-> TRUE]

ValidIndex(c, index) == index >= 0 /\ index < Len(c.thermostats)

\* self.thermostats[index]
Cached(c, index) == c.thermostats[index + 1]

\* self.thermostats[index][k] = fields[k], for every key of fields
Shadow(c, index, fields) ==
    [c EXCEPT !.thermostats[index + 1] =
        [k \in (DOMAIN @) \cup (DOMAIN fields) |->
            IF k \in DOMAIN fields THEN fields[k] ELSE @[k]]]

\* round(x, 1) of a temperature in hundredths (half to even on the decimal)
Round1(t) ==
    LET q == t \div 10
        r == t % 10
    IN  IF r < 5 THEN 10 * q
        ELSE IF r > 5 THEN 10 * (q + 1)
        ELSE IF q % 2 = 0 THEN 10 * q ELSE 10 * (q + 1)

\* round(x): Python 3 rounds half to even; x in hundredths, the result a whole number
RoundInt(x) ==
    LET q == x \div 100
        r == x % 100
    IN  IF r < 50 THEN q
        ELSE IF r > 50 THEN q + 1
        ELSE IF q % 2 = 0 THEN q ELSE q + 1

\* rounding to the whole degree
RoundToHalf_whole(temperature) == Round1(100 * RoundInt(temperature))

\* lines 661-662: round(temperature * 2) / 2, then round(_, 1); in hundredths
RoundToHalf(temperature) == Round1(50 * RoundInt(temperature * 2))

set_hvac_mode(c, index, hvac_mode, srv) ==
    LET body == Put(EmptyRec, "mode", hvac_mode) IN
    IF ~ValidIndex(c, index) THEN Direct(c, "raise:IndexError")
    ELSE Via(make_request(Shadow(c, index, body), PyInt(index), PyDict(body),
                          "set HVAC mode", 0, srv))

set_thermostat_schedule(c, index, prefix, start, enable, label, heating, cooling, srv) ==
    LET body == Put(Put(Put(Put(Put(EmptyRec, prefix \o "Time", start),
                    prefix \o "Enabled", enable), prefix \o "Label", label),
                    prefix \o "hsp", heating), prefix \o "csp", cooling)
    IN  Via(make_request(c, PyInt(index), PyDict(body), "set thermostat schedule", 0, srv))

set_fan_mode(c, index, fan_mode, srv) ==
    LET body == Put(EmptyRec, "fanCirculate", fan_mode) IN
    IF ~ValidIndex(c, index) THEN Direct(c, "raise:IndexError")
    ELSE Via(make_request(Shadow(c, index, body), PyInt(index), PyDict(body),
                          "set fan mode", 0, srv))

set_fan_speed(c, index, fan_speed, srv) ==
    LET body == Put(EmptyRec, "fanCirculateSpeed", fan_speed) IN
    IF ~ValidIndex(c, index) THEN Direct(c, "raise:IndexError")
    ELSE Via(make_request(Shadow(c, index, body), PyInt(index), PyDict(body),
                          "set fan speed", 0, srv))

set_fan_clean(c, index, active, srv) ==
    Via(make_request(c, PyInt(index), PyDict(Put(EmptyRec, "oneCleanFanActive", active)),
                     "set fan clean mode", 0, srv))

set_dual_fuel_efficiency(c, index, active, srv) ==
    Via(make_request(c, PyInt(index),
                     PyDict(Put(EmptyRec, "ctDualFuelFurnaceLockoutEnable", active)),
                     "set dual fuel efficiency mode", 0, srv))

\* set_temp_hold(index, cool_temp=None, heat_temp=None, hold_duration=None)
set_temp_hold(c, index, cool_temp, heat_temp, hold_duration, srv) ==
    IF ~ValidIndex(c, index)
        THEN Direct(c, "raise:IndexError")
    ELSE
        LET t == Cached(c, index) IN
        IF (hold_duration = None /\ ~Has(t, "schedOverrideDuration"))
           \/ (cool_temp = None /\ ~Has(t, "cspHome"))
           \/ (heat_temp = None /\ ~Has(t, "hspHome"))
            THEN Direct(c, "raise:KeyError")
        ELSE
            LET dur == IF hold_duration = None THEN t["schedOverrideDuration"]
                       ELSE hold_duration
                cool == IF cool_temp = None THEN t["cspHome"] ELSE cool_temp
                heat == IF heat_temp = None THEN t["hspHome"] ELSE heat_temp
                body == [hspHome |-> Round1(heat), cspHome |-> Round1(cool),
                         schedOverride |-> 1, schedOverrideDuration |-> dur]
            IN  Via(make_request(Shadow(c, index, body), PyInt(index), PyDict(body),
                                 "set hold temp", 0, srv))

\* set_permanent_hold(index, cool_temp=None, heat_temp=None)
set_permanent_hold(c, index, cool_temp, heat_temp, srv) ==
    IF ~ValidIndex(c, index) THEN Direct(c, "raise:IndexError")
    ELSE
        LET t == Cached(c, index) IN
        IF (cool_temp = None /\ ~Has(t, "cspHome"))
           \/ (heat_temp = None /\ ~Has(t, "hspHome"))
            THEN Direct(c, "raise:KeyError")
        ELSE
            LET cool == IF cool_temp = None THEN t["cspHome"] ELSE cool_temp
                heat == IF heat_temp = None THEN t["hspHome"] ELSE heat_temp
                body == [hspHome |-> Round1(heat), cspHome |-> Round1(cool),
                         schedOverride |-> 0, schedEnabled |-> FALSE]
            IN  Via(make_request(Shadow(c, index, body), PyInt(index), PyDict(body),
                                 "set permanent hold", 0, srv))

\* set_away(index, mode, heat_temp=None, cool_temp=None)
set_away(c, index, mode, heat_temp, cool_temp, srv) ==
    IF ~ValidIndex(c, index) THEN Direct(c, "raise:IndexError")
    ELSE
        LET t == Cached(c, index) IN
        IF (heat_temp = None /\ ~Has(t, "hspAway"))
           \/ (cool_temp = None /\ ~Has(t, "cspAway"))
            THEN Direct(c, "raise:KeyError")
        ELSE
            LET heat == IF heat_temp = None THEN Round1(t["hspAway"]) ELSE heat_temp
                cool == IF cool_temp = None THEN Round1(t["cspAway"]) ELSE cool_temp
                body == [geofencingAway |-> mode, hspAway |-> heat, cspAway |-> cool]
            IN  Via(make_request(Shadow(c, index, body), PyInt(index), PyDict(body),
                                 "set away mode", 0, srv))

resume_program(c, index, srv) ==
    Via(make_request(c, PyInt(index),
                     PyDict([schedEnabled |-> TRUE, schedOverride |-> 0,
                             geofencingAway |-> FALSE]),
                     "resume program", 0, srv))

set_fan_schedule(c, index, start, stop, interval, speed, srv) ==
    Via(make_request(c, PyInt(index),
                     PyDict([fanCirculateStart |-> start, fanCirculateStop |-> stop,
                             fanCirculateDuration |-> interval,
                             fanCirculateSpeed |-> speed]),
                     "set fan schedule", 0, srv))

set_night_mode(c, index, start, stop, enable, srv) ==
    Via(make_request(c, PyInt(index),
                     PyDict([nightModeStart |-> start, nightModeStop |-> stop,
                             nightModeEnabled |-> enable]),
                     "set night mode", 0, srv))

set_econo_mode(c, index, active, srv) ==
    LET body == Put(EmptyRec, "iduEconoModeSetting", active) IN
    IF ~ValidIndex(c, index) THEN Direct(c, "raise:IndexError")
    ELSE Via(make_request(Shadow(c, index, body), PyInt(index), PyDict(body),
                          "set econo mode", 0, srv))

set_boost_mode(c, index, active, srv) ==
    LET body == Put(EmptyRec, "oduPowerfulOperationRequest", active) IN
    IF ~ValidIndex(c, index) THEN Direct(c, "raise:IndexError")
    ELSE Via(make_request(Shadow(c, index, body), PyInt(index), PyDict(body),
                          "set boost mode", 0, srv))

\* set_humidity(index, humidity_low=None, humidity_high=None)
set_humidity(c, index, humidity_low, humidity_high, srv) ==
    IF (humidity_low = None \/ humidity_high = None) /\ ~ValidIndex(c, index)
        THEN Direct(c, "raise:IndexError")
    ELSE IF (humidity_low = None /\ ~Has(Cached(c, index), "humSP"))
            \/ (humidity_high = None /\ ~Has(Cached(c, index), "dehumSP"))
        THEN Direct(c, "raise:KeyError")
    ELSE
        LET low == IF humidity_low = None THEN Cached(c, index)["humSP"] ELSE humidity_low
            high == IF humidity_high = None THEN Cached(c, index)["dehumSP"]
                    ELSE humidity_high
        IN  Via(make_request(c, PyInt(index), PyDict([dehumSP |-> high, humSP |-> low]),
                             "set humidity level", 0, srv))


\* a mode map that sends dry as auto
wall_unit_mode_map_dry_as_auto(hvac_mode, default) ==
    IF hvac_mode.t = "int"
    THEN CASE hvac_mode.v = DAIKIN_HVAC_MODE_HEAT -> 1
           [] hvac_mode.v = DAIKIN_HVAC_MODE_COOL -> 2
           [] hvac_mode.v = DAIKIN_HVAC_MODE_AUTO -> 3
           [] hvac_mode.v = DAIKIN_HVAC_MODE_DRY -> 3
           [] hvac_mode.v = WALL_UNIT_FAN_MODE_DEFAULT -> WALL_UNIT_FAN_MODE_DEFAULT
           [] OTHER -> default
    ELSE CASE hvac_mode.v = "heat" -> 1
           [] hvac_mode.v = "cool" -> 2
           [] hvac_mode.v = "auto" -> 3
           [] hvac_mode.v = "dry" -> 3
           [] hvac_mode.v = "fan_only" -> WALL_UNIT_FAN_MODE_DEFAULT
           [] OTHER -> default

\* lines 612-623: mode_map.get(hvac_mode, default)
wall_unit_mode_map(hvac_mode, default) ==
    IF hvac_mode.t = "int"
    THEN CASE hvac_mode.v = DAIKIN_HVAC_MODE_HEAT -> 1
           [] hvac_mode.v = DAIKIN_HVAC_MODE_COOL -> 2
           [] hvac_mode.v = DAIKIN_HVAC_MODE_AUTO -> 3
           [] hvac_mode.v = DAIKIN_HVAC_MODE_DRY -> 5
           [] hvac_mode.v = WALL_UNIT_FAN_MODE_DEFAULT -> WALL_UNIT_FAN_MODE_DEFAULT
           [] OTHER -> default
    ELSE CASE hvac_mode.v = "heat" -> 1
           [] hvac_mode.v = "cool" -> 2
           [] hvac_mode.v = "auto" -> 3
           [] hvac_mode.v = "dry" -> 5
           [] hvac_mode.v = "fan_only" -> WALL_UNIT_FAN_MODE_DEFAULT
           [] OTHER -> default

\* set_wall_unit_mode(index, hvac_mode); hvac_mode a PyInt or a PyStr (an
\* HVACMode member is replaced by its value)
set_wall_unit_mode(c, index, hvac_mode, srv) ==
    IF ~ValidIndex(c, index) THEN Direct(c, "raise:IndexError")
    ELSE
        LET t == Cached(c, index)
            off == (hvac_mode.t = "int" /\ hvac_mode.v = DAIKIN_HVAC_MODE_OFF)
                   \/ (hvac_mode.t = "str" /\ hvac_mode.v = "off")
            code == wall_unit_mode_map(hvac_mode,
                        Get(t, "iduOperatingMode", DAIKIN_HVAC_MODE_AUTO))
            fan_key == wall_unit_fan_speed_key(code)
            body1 == [iduOnOff |-> TRUE, iduOperatingMode |-> code]
            body == IF off THEN [iduOnOff |-> FALSE]
                    ELSE IF fan_key # NoneStr /\ Has(t, fan_key)
                        THEN Put(body1, fan_key, t[fan_key])
                    ELSE body1
            t1 == IF off THEN t
                  ELSE IF code \in WALL_UNIT_FAN_MODE_VALUES
                      THEN Put(Put(t, "iduOperatingMode", code), "wallUnitFanModeValue", code)
                  ELSE Put(t, "iduOperatingMode", code)
            t2 == Put(t1, "iduOnOff", body["iduOnOff"])
            t3 == Put(t2, "mode", wall_unit_mode(t2))
        IN  Via(make_request([c EXCEPT !.thermostats[index + 1] = t3], PyInt(index),
                             PyDict(body), "set wall unit mode", 0, srv))

\* set_wall_unit_fan_speed(index, fan_speed, hvac_mode=None)
set_wall_unit_fan_speed(c, index, fan_speed, hvac_mode, srv) ==
    IF fan_speed = None THEN Direct(c, "None")
    ELSE IF ~ValidIndex(c, index) THEN Direct(c, "raise:IndexError")
    ELSE
        LET t == Cached(c, index)
            is_on == ~IsFalse(t, "iduOnOff")
            mode == IF hvac_mode = None THEN Get(t, "iduOperatingMode", None) ELSE hvac_mode
            fan_key == wall_unit_fan_speed_key(mode)
        IN  IF mode = DAIKIN_HVAC_MODE_OFF /\ ~is_on THEN Direct(c, "None")
            ELSE IF fan_key = NoneStr THEN Direct(c, "None")
            ELSE LET body == Put(EmptyRec, fan_key, fan_speed)
                 IN  Via(make_request(Shadow(c, index, body), PyInt(index), PyDict(body),
                                      "set wall unit fan speed", 0, srv))

\* lines 670-678: the setpoint field written for a mode (NoneStr: none)
SetpointKey(hvac_mode) ==
    CASE hvac_mode = DAIKIN_HVAC_MODE_COOL -> "iduCoolSetpoint"
      [] hvac_mode = DAIKIN_HVAC_MODE_HEAT -> "iduHeatSetpoint"
      [] hvac_mode = DAIKIN_HVAC_MODE_AUTO -> "iduAutoSetpoint"
      [] OTHER -> NoneStr

\* set_wall_unit_temperature(index, temperature, hvac_mode=None)
set_wall_unit_temperature(c, index, temperature, hvac_mode, srv) ==
    IF temperature = None THEN Direct(c, "None")
    ELSE IF ~ValidIndex(c, index) THEN Direct(c, "raise:IndexError")
    ELSE
        LET t == Cached(c, index)
            temp == RoundToHalf(temperature)
            mode == IF hvac_mode = None THEN Get(t, "mode", None) ELSE hvac_mode
            body0 == IF Has(t, "oduPowerfulOperationRequest")
                         THEN Put(EmptyRec, "oduPowerfulOperationRequest",
                                  t["oduPowerfulOperationRequest"])
                         ELSE EmptyRec
            key == SetpointKey(mode)
            body == IF key # NoneStr THEN Put(body0, key, temp) ELSE body0
            t1 == IF key # NoneStr THEN Put(t, key, temp) ELSE t
            t2 == IF mode # None THEN Put(t1, "mode", mode) ELSE t1
        IN  IF key = NoneStr /\ mode = DAIKIN_HVAC_MODE_DRY THEN Direct(c, "None")
            ELSE Via(make_request([c EXCEPT !.thermostats[index + 1] = t2], PyInt(index),
                                  PyDict(body), "set wall unit temperature", 0, srv))


(***************************************************************************)
(* The client in use: one account with one device.  raw is the record the  *)
(* vendor API holds for the device; every poll that gets through reads it. *)
(***************************************************************************)
\* most mutation calls between two polls that store the device
MaxDirty == 2

\* the indexes callers pass: the entity of the account's device holds index 0
Indexes == {0}

\* a Central device as the vendor API reports it
ServedCentral ==
    [mode |-> DAIKIN_HVAC_MODE_HEAT, ctSystemCapHeat |-> TRUE,
     ctOutdoorNoofCoolStages |-> 1, P1P2S21CoolingCapability |-> TRUE,
     tempIndoor |-> 2150, hspActive |-> 2000, cspActive |-> 2400,
     hspHome |-> 2000, cspHome |-> 2400, hspAway |-> 1600, cspAway |-> 2800,
     schedOverride |-> 0, schedEnabled |-> FALSE, geofencingAway |-> TRUE,
     fanCirculate |-> 0, fanCirculateSpeed |-> 0, humSP |-> 30, dehumSP |-> 50]

\* a wall unit as the vendor API reports it
ServedWallUnit ==
    [adptSupportedEquipment |-> "RA", iduOnOff |-> TRUE,
     iduOperatingMode |-> DAIKIN_HVAC_MODE_COOL, iduRoomTemp |-> 2210,
     iduCoolSetpoint |-> 2400, iduHeatSetpoint |-> 2000,
     iduCoolFanSpeed |-> 3, oduPowerfulOperationRequest |-> FALSE]

\* what the vendor API answers during one mutation call: the status of each
\* PUT in turn, of the token refresh and of the login
MutationServer(put, refresh, login) ==
    [put |-> put, refresh |-> refresh, login |-> login,
     new_access |-> "tok1", new_refresh |-> "ref1"]

MutationServers ==
    {MutationServer(<<p>>, "200", "200") : p \in {"200", "conn", "500"}}
    \cup {MutationServer(<<"401_expired", p>>, "200", "200") : p \in {"200", "401_expired"}}
    \cup {MutationServer(<<"401_expired", "200">>, "conn", "200")}
    \cup {MutationServer(<<"401_expired", "200">>, "400", l) :
            l \in {"200", "200_no_refresh_token", "conn", "403"}}

\* what the vendor API answers during one poll
PollServer(devices, kind) ==
    [devices |-> devices, list |-> <<HarnessEntry>>,
     detail |-> <<[kind |-> kind, data |-> raw]>>]

PollServers ==
    {PollServer(d, "ok") : d \in {"conn", "401", "500"}}
    \cup {PollServer("200", k) : k \in {"ok", "offline", "conn", "500"}}

IsPut(rq) == rq.method = "PUT"

IsRefresh(rq) == rq.method = "POST" /\ rq.path = "/users/auth/token"

IsLogin(rq) == rq.method = "POST" /\ rq.path = "/users/auth/login"

IsGet(rq) == rq.method = "GET"

\* a device detail that was answered and stored
Stored(rq) == rq.method = "GET" /\ rq.path = "/deviceData" /\ rq.status = "ok"

Count(log, P(_)) == Cardinality({i \in 1..Len(log) : P(log[i])})

\* no call in progress
Idle == [op |-> "idle", kind |-> "idle"]

\* a call runs to its end: the client's attributes after it, and the record
\* of the call that the caller gets
Commit(op, kind, index, args, r, reached, srv) ==
    /\ ret = Idle
    /\ kind = "mutation" => dirty < MaxDirty
    /\ thermostats' = r.c.thermostats
    /\ skip_next' = r.c.skip_next
    /\ authenticated' = r.c.authenticated
    /\ access_token' = r.c.access_token
    /\ refresh_token' = r.c.refresh_token
    /\ file_based_config' = r.c.file_based_config
    /\ config' = r.c.config
    /\ http' = r.c.http
    /\ ret' = [op |-> op, kind |-> kind, index |-> index, args |-> args, srv |-> srv,
               result |-> r.result, reached |-> reached, muts |-> muts]
    /\ muts' = IF kind = "update" THEN 0 ELSE IF reached THEN muts + 1 ELSE muts
    /\ dirty' = IF kind = "mutation" THEN dirty + 1
                ELSE IF Count(r.c.http, Stored) > 0 THEN 0 ELSE dirty
    /\ UNCHANGED resolverVars

Mutation(op, index, args, r, srv) ==
    Commit(op, "mutation", index, args, r, r.reached, srv)

\* the caller takes the result; nothing of the call is kept
Return ==
    /\ ret # Idle
    /\ ret' = Idle
    /\ http' = <<>>
    /\ UNCHANGED <<thermostats, skip_next, authenticated, access_token, refresh_token,
                   file_based_config, config, muts, dirty>>
    /\ UNCHANGED resolverVars

\* a client just constructed, for an account whose device is served; file_based
\* holds the ways its configuration may be kept (TRUE: in a file)
ClientInit(served, file_based) ==
    /\ raw = served
    /\ dev = EmptyRec
    /\ ent = NoEntity
    /\ stage = "client"
    /\ file_based_config \in file_based
    /\ ClientConstructed

Update ==
    /\ ret = Idle
    /\ \E srv \in PollServers :
        Commit("update", "update", None, <<>>, update(Client, srv), FALSE, srv)

\* the entity's _is_wall_unit: climate.py calls the wall-unit entry points for
\* a wall unit and the Central ones for any other device
WallUnitDevice == is_wall_unit(raw)

SetHvacMode ==
    /\ ~WallUnitDevice
    /\ \E index \in Indexes, srv \in MutationServers, hvac_mode \in {DAIKIN_HVAC_MODE_COOL} :
        Mutation("set_hvac_mode", index, <<hvac_mode>>,
                 set_hvac_mode(Client, index, hvac_mode, srv), srv)

SetThermostatSchedule ==
    /\ ~WallUnitDevice
    /\ \E index \in Indexes, srv \in MutationServers :
        Mutation("set_thermostat_schedule", index, <<"schedMonPart1">>,
                 set_thermostat_schedule(Client, index, "schedMonPart1", 24, TRUE,
                                         "wakeup", 2000, 2400, srv), srv)

SetFanMode ==
    /\ ~WallUnitDevice
    /\ \E index \in Indexes, srv \in MutationServers, fan_mode \in {1} :
        Mutation("set_fan_mode", index, <<fan_mode>>,
                 set_fan_mode(Client, index, fan_mode, srv), srv)

SetFanSpeed ==
    /\ ~WallUnitDevice
    /\ \E index \in Indexes, srv \in MutationServers, fan_speed \in {2} :
        Mutation("set_fan_speed", index, <<fan_speed>>,
                 set_fan_speed(Client, index, fan_speed, srv), srv)

SetFanClean ==
    /\ ~WallUnitDevice
    /\ \E index \in Indexes, srv \in MutationServers, active \in {TRUE} :
        Mutation("set_fan_clean", index, <<active>>,
                 set_fan_clean(Client, index, active, srv), srv)

SetDualFuelEfficiency ==
    /\ ~WallUnitDevice
    /\ \E index \in Indexes, srv \in MutationServers, active \in {TRUE} :
        Mutation("set_dual_fuel_efficiency", index, <<active>>,
                 set_dual_fuel_efficiency(Client, index, active, srv), srv)

SetTempHold ==
    /\ ~WallUnitDevice
    /\ \E index \in Indexes, srv \in MutationServers,
          a \in {<<None, None, None>>, <<2447, 1950, 60>>} :
        Mutation("set_temp_hold", index, a,
                 set_temp_hold(Client, index, a[1], a[2], a[3], srv), srv)

SetPermanentHold ==
    /\ ~WallUnitDevice
    /\ \E index \in Indexes, srv \in MutationServers,
          a \in {<<None, None>>, <<2447, None>>} :
        Mutation("set_permanent_hold", index, a,
                 set_permanent_hold(Client, index, a[1], a[2], srv), srv)

SetAway ==
    /\ ~WallUnitDevice
    /\ \E index \in Indexes, srv \in MutationServers, mode \in BOOLEAN :
        Mutation("set_away", index, <<mode>>,
                 set_away(Client, index, mode, None, None, srv), srv)

ResumeProgram ==
    /\ ret = Idle
    /\ \E index \in Indexes, srv \in MutationServers :
        Mutation("resume_program", index, <<>>, resume_program(Client, index, srv), srv)

SetFanSchedule ==
    /\ ~WallUnitDevice
    /\ \E index \in Indexes, srv \in MutationServers :
        Mutation("set_fan_schedule", index, <<32, 72, 2, 1>>,
                 set_fan_schedule(Client, index, 32, 72, 2, 1, srv), srv)

SetNightMode ==
    /\ ~WallUnitDevice
    /\ \E index \in Indexes, srv \in MutationServers :
        Mutation("set_night_mode", index, <<88, 24>>,
                 set_night_mode(Client, index, 88, 24, TRUE, srv), srv)

SetEconoMode ==
    /\ WallUnitDevice
    /\ \E index \in Indexes, srv \in MutationServers, active \in {TRUE} :
        Mutation("set_econo_mode", index, <<active>>,
                 set_econo_mode(Client, index, active, srv), srv)

SetBoostMode ==
    /\ WallUnitDevice
    /\ \E index \in Indexes, srv \in MutationServers, active \in {TRUE} :
        Mutation("set_boost_mode", index, <<active>>,
                 set_boost_mode(Client, index, active, srv), srv)

SetHumidity ==
    /\ ret = Idle
    /\ \E index \in Indexes, srv \in MutationServers, humidity \in {40} :
        Mutation("set_humidity", index, <<humidity, None>>,
                 set_humidity(Client, index, humidity, None, srv), srv)

\* the modes asked of a wall unit: a vendor code, or an HVACMode's value
WallUnitModes ==
    <<PyInt(DAIKIN_HVAC_MODE_OFF), PyStr("off"), PyStr("heat"), PyStr("cool"), PyStr("auto"),
      PyStr("dry"), PyStr("fan_only"), PyStr("heat_cool"), PyInt(DAIKIN_HVAC_MODE_AUXHEAT)>>

SetWallUnitMode ==
    /\ WallUnitDevice
    /\ \E index \in Indexes, srv \in MutationServers, i \in DOMAIN WallUnitModes :
        Mutation("set_wall_unit_mode", index, <<WallUnitModes[i]>>,
                 set_wall_unit_mode(Client, index, WallUnitModes[i], srv), srv)

SetWallUnitFanSpeed ==
    /\ WallUnitDevice
    /\ \E index \in Indexes, srv \in MutationServers,
          a \in {<<None, None>>, <<5, None>>} :
        Mutation("set_wall_unit_fan_speed", index, a,
                 set_wall_unit_fan_speed(Client, index, a[1], a[2], srv), srv)

\* the temperatures asked for, in hundredths of a degree
Temperatures == {2120, 2125, 2130, 2175}

\* the (temperature, hvac_mode) pairs asked for; None: the argument is left out
TemperatureCalls ==
    (Temperatures \X {None})
    \cup {<<2130, DAIKIN_HVAC_MODE_HEAT>>, <<2120, DAIKIN_HVAC_MODE_AUTO>>,
          <<2130, DAIKIN_HVAC_MODE_DRY>>, <<None, None>>}

SetWallUnitTemperature ==
    /\ WallUnitDevice
    /\ \E index \in Indexes, srv \in MutationServers, a \in TemperatureCalls :
        Mutation("set_wall_unit_temperature", index, a,
                 set_wall_unit_temperature(Client, index, a[1], a[2], srv), srv)

\* an account with a Central device
Next ==
    \/ Update
    \/ SetHvacMode
    \/ SetThermostatSchedule
    \/ SetFanMode
    \/ SetFanSpeed
    \/ SetFanClean
    \/ SetDualFuelEfficiency
    \/ SetTempHold
    \/ SetPermanentHold
    \/ SetAway
    \/ ResumeProgram
    \/ SetFanSchedule
    \/ SetNightMode
    \/ SetHumidity
    \/ Return

Spec == ClientInit(ServedCentral, BOOLEAN) /\ [][Next]_vars

\* an account with a wall unit
NextWall ==
    \/ Update
    \/ SetWallUnitMode
    \/ SetWallUnitFanSpeed
    \/ SetWallUnitTemperature
    \/ SetEconoMode
    \/ SetBoostMode
    \/ ResumeProgram
    \/ SetHumidity
    \/ Return

SpecWall == ClientInit(ServedWallUnit, {FALSE}) /\ [][NextWall]_vars

(***************************************************************************)
(* An account with two devices, polled: a Central device and a wall unit,  *)
(* each answering its detail request in its own way.                       *)
(***************************************************************************)
\* the list entry of the account's second device
SecondEntry == [id |-> "dev-2", name |-> "Bedroom", model |-> "RA"]

\* what the vendor API answers during one poll of the two devices: each
\* detail is served, refused as offline (400 DeviceOfflineException) or
\* refused with 500, and a served record holds the room's temperature of the day
TwoDeviceServers ==
    {[devices |-> "200", list |-> <<HarnessEntry, SecondEntry>>,
      detail |-> <<[kind |-> k1, data |-> Put(ServedCentral, "tempIndoor", t1)],
                   [kind |-> k2, data |-> Put(ServedWallUnit, "iduRoomTemp", t2)]>>] :
        k1 \in {"ok", "offline", "500"}, k2 \in {"ok", "offline", "500"},
        t1 \in {2150, 2200}, t2 \in {2210, 2250}}

\* the coordinator's poll of the account
PollTwo ==
    /\ ret = Idle
    /\ \E srv \in TwoDeviceServers :
        Commit("update", "update", None, <<>>, update(Client, srv), FALSE, srv)

NextPoll == PollTwo \/ Return

SpecPoll == ClientInit(ServedCentral, {FALSE}) /\ [][NextPoll]_vars

(***************************************************************************)
(* The entity's commands (climate.py).  A command is an operator from the  *)
(* client's state c and the entity's attributes e to a record              *)
(* [c, e, result, calls]: calls lists the client calls it made, in order,  *)
(* each answered by the next of the servers srvs; an exception raised by a *)
(* call ends the command at once and is its result.                        *)
(***************************************************************************)
\* FAN_TO_DAIKIN_FAN[fan_mode]
FAN_TO_DAIKIN_FAN(fan_mode) ==
    CASE fan_mode = FAN_AUTO -> 0
      [] fan_mode = FAN_ON -> 1
      [] fan_mode = FAN_SCHEDULE -> 2
      [] fan_mode = FAN_LOW -> 0
      [] fan_mode = FAN_MEDIUM -> 1
      [] fan_mode = FAN_HIGH -> 2

\* WALL_UNIT_FAN_SPEED_FROM_HASS.get(label): the code of a label (None: not a label)
WALL_UNIT_FAN_SPEED_FROM_HASS(label) ==
    IF \E code \in WALL_UNIT_FAN_SPEED_CODES : WALL_UNIT_FAN_SPEED_TO_HASS(code) = label
        THEN CHOOSE code \in WALL_UNIT_FAN_SPEED_CODES :
                WALL_UNIT_FAN_SPEED_TO_HASS(code) = label
        ELSE None

\* int(text) that answers 0 for a text that is no number
int_of_lenient(text) ==
    IF \E n \in 0..99 : Str(n) = text
        THEN CHOOSE n \in 0..99 : Str(n) = text
        ELSE 0

\* int(text) of a string: the number it is the decimal of (None: ValueError)
int_of(text) ==
    IF \E n \in 0..99 : Str(n) = text
        THEN CHOOSE n \in 0..99 : Str(n) = text
        ELSE None

WEEKDAY == <<"Mon", "Tue", "Wed", "Thu", "Fri", "Sat", "Sun">>

\* day[0:3].capitalize(), day being the sequence of the characters of a str
day_capitalize(day) ==
    LET lower == <<"a", "b", "c", "d", "e", "f", "g", "h", "i", "j", "k", "l", "m",
                   "n", "o", "p", "q", "r", "s", "t", "u", "v", "w", "x", "y", "z">>
        upper == <<"A", "B", "C", "D", "E", "F", "G", "H", "I", "J", "K", "L", "M",
                   "N", "O", "P", "Q", "R", "S", "T", "U", "V", "W", "X", "Y", "Z">>
        to(ch, from, into) ==
            IF \E i \in 1..26 : from[i] = ch
                THEN into[CHOOSE i \in 1..26 : from[i] = ch] ELSE ch
        at(i) == IF i > Len(day) THEN ""
                 ELSE IF i = 1 THEN to(day[i], lower, upper)
                 ELSE to(day[i], upper, lower)
    IN  at(1) \o at(2) \o at(3)

\* Thermostat._daikin_mode_from_hass: the first code of DAIKIN_HVAC_TO_HASS
\* that maps to hvac_mode, the Off code when there is none
daikin_mode_from_hass(hvac_mode) ==
    CASE hvac_mode = HVAC_HEAT -> DAIKIN_HVAC_MODE_HEAT
      [] hvac_mode = HVAC_COOL -> DAIKIN_HVAC_MODE_COOL
      [] hvac_mode = HVAC_AUTO -> DAIKIN_HVAC_MODE_AUTO
      [] hvac_mode = HVAC_DRY -> DAIKIN_HVAC_MODE_DRY
      [] OTHER -> DAIKIN_HVAC_MODE_OFF

\* the command goes on with the client call op(c) unless a call before raised
Then(k, name, op(_)) ==
    IF Raises(k) THEN k
    ELSE LET r == op(k.c)
         IN  [c |-> r.c, result |-> r.result,
              calls |-> Append(k.calls, [op |-> name, reached |-> r.reached,
                                         result |-> r.result])]

\* a dry-mode test that never answers yes
is_dry_mode_never(e) == FALSE

\* Thermostat._is_dry_mode
is_dry_mode(e) == e.hvac_mode = HVAC_DRY

\* Thermostat.set_preset_mode
thermostat_set_preset_mode(c, e, index, preset_mode, srvs) ==
    LET start == [c |-> c, result |-> "None", calls |-> <<>>]
        noop == [c |-> c, e |-> e, result |-> "None", calls |-> <<>>]
        done(k) ==
            IF Raises(k) THEN [c |-> k.c, e |-> e, result |-> k.result, calls |-> k.calls]
            ELSE [c |-> k.c,
                  e |-> [e EXCEPT !.preset_mode = preset_mode,
                                  !.update_without_throttle = TRUE],
                  result |-> "None", calls |-> k.calls]
        econo(k, active, n) ==
            Then(k, "set_econo_mode", LAMBDA x : set_econo_mode(x, index, active, srvs[n]))
        boost(k, active, n) ==
            Then(k, "set_boost_mode", LAMBDA x : set_boost_mode(x, index, active, srvs[n]))
        home == Then(start, "set_away",
                     LAMBDA x : set_away(x, index, FALSE, None, None, srvs[1]))
    IN  IF e.is_wall_unit THEN
            IF e.hvac_mode = HVAC_FAN_ONLY /\ preset_mode = PRESET_ECONO THEN noop
            ELSE IF preset_mode = e.preset_mode THEN noop
            ELSE IF preset_mode = PRESET_ECONO
                THEN done(boost(econo(start, TRUE, 1), FALSE, 2))
            ELSE IF preset_mode = PRESET_BOOST
                THEN done(econo(boost(start, TRUE, 1), FALSE, 2))
            ELSE IF preset_mode = PRESET_NONE
                THEN done(econo(boost(start, FALSE, 1), FALSE, 2))
            ELSE noop
        ELSE IF preset_mode = e.preset_mode THEN noop
        ELSE IF preset_mode = PRESET_AWAY
            THEN done(Then(start, "set_away",
                           LAMBDA x : set_away(x, index, TRUE, None, None, srvs[1])))
        ELSE IF preset_mode = PRESET_SCHEDULE
            THEN done(Then(home, "resume_program",
                           LAMBDA x : resume_program(x, index, srvs[2])))
        ELSE IF preset_mode = PRESET_MANUAL
            THEN done(Then(home, "set_permanent_hold",
                           LAMBDA x : set_permanent_hold(x, index, None, None, srvs[2])))
        ELSE IF preset_mode = PRESET_TEMP_HOLD
            THEN done(Then(home, "set_temp_hold",
                           LAMBDA x : set_temp_hold(x, index, None, None, None, srvs[2])))
        ELSE noop

\* Thermostat.set_fan_mode
thermostat_set_fan_mode(c, e, index, fan_mode, srvs) ==
    LET start == [c |-> c, result |-> "None", calls |-> <<>>]
        noop == [c |-> c, e |-> e, result |-> "None", calls |-> <<>>]
        done(k, e1, e2) ==
            [c |-> k.c, e |-> IF Raises(k) THEN e1 ELSE e2,
             result |-> IF Raises(k) THEN k.result ELSE "None", calls |-> k.calls]
        t == Cached(c, index)
    IN  IF e.is_wall_unit /\ is_dry_mode(e) THEN noop
        ELSE IF e.is_wall_unit THEN
            LET label == WALL_UNIT_FAN_SPEED_FROM_HASS(fan_mode)
                fan_speed == IF label # None THEN label ELSE int_of(fan_mode)
                last == wall_unit_operating_mode(t)
                hvac_mode == IF e.hvac_mode # HVAC_OFF THEN e.hvac_mode
                             ELSE IF last = NoneStr THEN HVAC_AUTO ELSE last
                daikin_mode == IF hvac_mode = HVAC_FAN_ONLY THEN WALL_UNIT_FAN_MODE_DEFAULT
                               ELSE daikin_mode_from_hass(hvac_mode)
            IN  IF fan_speed = None THEN noop
                ELSE done(Then(start, "set_wall_unit_fan_speed",
                               LAMBDA x : set_wall_unit_fan_speed(x, index, fan_speed,
                                                                  daikin_mode, srvs[1])),
                          e,
                          [e EXCEPT !.fan_mode = Str(fan_speed),
                                    !.update_without_throttle = TRUE])
        ELSE IF fan_mode \in {FAN_ON, FAN_AUTO, FAN_SCHEDULE}
            THEN done(Then(start, "set_fan_mode",
                           LAMBDA x : set_fan_mode(x, index, FAN_TO_DAIKIN_FAN(fan_mode),
                                                   srvs[1])),
                      e,
                      [e EXCEPT !.fan_mode = fan_mode, !.update_without_throttle = TRUE])
        ELSE IF fan_mode \in {FAN_LOW, FAN_MEDIUM, FAN_HIGH} THEN
            LET first == IF e.fan_mode = FAN_AUTO
                             THEN Then(start, "set_fan_mode",
                                       LAMBDA x : set_fan_mode(x, index,
                                                               FAN_TO_DAIKIN_FAN(FAN_ON),
                                                               srvs[1]))
                             ELSE start
                e1 == IF e.fan_mode = FAN_AUTO /\ ~Raises(first)
                          THEN [e EXCEPT !.fan_mode = fan_mode] ELSE e
            IN  done(Then(first, "set_fan_speed",
                          LAMBDA x : set_fan_speed(x, index, FAN_TO_DAIKIN_FAN(fan_mode),
                                                   srvs[2])),
                     e1,
                     [e1 EXCEPT !.fan_speed = FAN_TO_DAIKIN_FAN(fan_mode),
                                !.update_without_throttle = TRUE])
        ELSE noop

\* Thermostat.set_thermostat_schedule with a day given; kw holds the keyword
\* arguments given among Time, Enabled, Label, hsp and csp
thermostat_set_thermostat_schedule(c, e, index, day, kw, srvs) ==
    LET start == [c |-> c, result |-> "None", calls |-> <<>>]
        noop == [c |-> c, e |-> e, result |-> "None", calls |-> <<>>]
        name == day_capitalize(day)
        prefix == "sched" \o name \o "Part" \o Str(1)
        t == Cached(c, index)
        fields == {"Time", "Enabled", "Label", "hsp", "csp"}
        arg(f) == IF Has(kw, f) THEN kw[f] ELSE t[prefix \o f]
    IN  IF e.is_wall_unit THEN noop
        ELSE IF \A i \in DOMAIN WEEKDAY : WEEKDAY[i] # name THEN noop
        ELSE IF \E f \in fields : ~Has(kw, f) /\ ~Has(t, prefix \o f)
            THEN [c |-> c, e |-> e, result |-> "raise:KeyError", calls |-> <<>>]
        ELSE
            LET k == Then(start, "set_thermostat_schedule",
                          LAMBDA x : set_thermostat_schedule(x, index, prefix, arg("Time"),
                                        arg("Enabled"), arg("Label"), arg("hsp"),
                                        arg("csp"), srvs[1]))
            IN  [c |-> k.c,
                 e |-> IF Raises(k) THEN e ELSE [e EXCEPT !.update_without_throttle = TRUE],
                 result |-> IF Raises(k) THEN k.result ELSE "None", calls |-> k.calls]


HOLD_NEXT_TRANSITION == 0

\* a field's value that is of another type than int (a float, a str, null)
NotAnInt == 0 - 2

\* the hold duration read from the record whatever its type
hold_preference_unchecked(t) == Get(t, "schedOverrideDuration", HOLD_NEXT_TRANSITION)

\* Thermostat.hold_preference, on the record t the entity holds
hold_preference(t) ==
    LET default == Get(t, "schedOverrideDuration", HOLD_NEXT_TRANSITION)
    IN  IF default # NotAnInt /\ default # None THEN default ELSE HOLD_NEXT_TRANSITION

\* Thermostat.set_temperature; kw holds the keyword arguments given among
\* temperature, target_temp_low and target_temp_high
thermostat_set_temperature(c, e, index, kw, srvs) ==
    LET start == [c |-> c, result |-> "None", calls |-> <<>>]
        noop == [c |-> c, e |-> e, result |-> "None", calls |-> <<>>]
        raise(x) == [c |-> c, e |-> e, result |-> x, calls |-> <<>>]
        t == Cached(c, index)
        low_temp == Get(kw, "target_temp_low", None)
        high_temp == Get(kw, "target_temp_high", None)
        temp == Get(kw, "temperature", None)
        \* the last two assignments of set_temperature (lines 1088-1089)
        last(k) ==
            IF Raises(k) THEN [c |-> k.c, e |-> e, result |-> k.result, calls |-> k.calls]
            ELSE [c |-> k.c,
                  e |-> [e EXCEPT !.cool_setpoint = high_temp, !.heat_setpoint = low_temp,
                                  !.update_without_throttle = TRUE],
                  result |-> "None", calls |-> k.calls]
        \* set_auto_temp_hold (lines 934-971)
        set_auto_temp_hold(heat_temp, cool_temp) ==
            IF (cool_temp = None /\ ~Has(t, "cspHome"))
               \/ (heat_temp = None /\ ~Has(t, "hspHome"))
                THEN [c |-> c, result |-> "raise:KeyError", calls |-> <<>>]
            ELSE
                LET cool == IF cool_temp # None THEN cool_temp ELSE t["cspHome"]
                    heat == IF heat_temp # None THEN heat_temp ELSE t["hspHome"]
                IN  IF e.preset_mode = PRESET_MANUAL
                        THEN Then(start, "set_permanent_hold",
                                  LAMBDA x : set_permanent_hold(x, index, cool, heat, srvs[1]))
                        ELSE Then(start, "set_temp_hold",
                                  LAMBDA x : set_temp_hold(x, index, cool, heat,
                                                           hold_preference(t), srvs[1]))
        \* set_temp_hold (lines 1038-1049)
        set_temp_hold_of(temperature) ==
            IF e.hvac_mode = HVAC_HEAT
                THEN IF ~Has(t, "cspHome")
                         THEN [c |-> c, result |-> "raise:KeyError", calls |-> <<>>]
                         ELSE set_auto_temp_hold(temperature, t["cspHome"])
            ELSE IF e.hvac_mode = HVAC_COOL
                THEN IF ~Has(t, "hspHome")
                         THEN [c |-> c, result |-> "raise:KeyError", calls |-> <<>>]
                         ELSE set_auto_temp_hold(t["hspHome"], temperature)
            ELSE [c |-> c, result |-> "raise:UnboundLocalError", calls |-> <<>>]
    IN  IF e.is_wall_unit /\ is_dry_mode(e) THEN noop
        ELSE IF e.is_wall_unit THEN
            LET wall_temp == IF temp # None THEN temp
                             ELSE IF high_temp # None /\ high_temp # 0 THEN high_temp
                             ELSE low_temp
                daikin_mode == daikin_mode_from_hass(e.hvac_mode)
                k == Then(start, "set_wall_unit_temperature",
                          LAMBDA x : set_wall_unit_temperature(x, index, wall_temp,
                                                               daikin_mode, srvs[1]))
                e1 == [e EXCEPT !.target_temp = wall_temp,
                                !.update_without_throttle = TRUE]
                e2 == IF e.hvac_mode = HVAC_HEAT THEN [e1 EXCEPT !.heat_setpoint = wall_temp]
                      ELSE IF e.hvac_mode = HVAC_COOL
                          THEN [e1 EXCEPT !.cool_setpoint = wall_temp]
                      ELSE e1
            IN  IF wall_temp = None THEN noop
                ELSE [c |-> k.c, e |-> IF Raises(k) THEN e ELSE e2,
                      result |-> IF Raises(k) THEN k.result ELSE "None", calls |-> k.calls]
        ELSE IF e.hvac_mode = HVAC_AUTO /\ (low_temp # None \/ high_temp # None)
            THEN last(set_auto_temp_hold(low_temp, high_temp))
        ELSE IF temp # None THEN last(set_temp_hold_of(temp))
        ELSE [c |-> c,
              e |-> [e EXCEPT !.cool_setpoint = high_temp, !.heat_setpoint = low_temp],
              result |-> "None", calls |-> <<>>]

(***************************************************************************)
(* An entity in use: the account's device after the first poll, commanded  *)
(* through the entity and polled again by the coordinator.                 *)
(***************************************************************************)
\* the devices the account may hold
EntityServed ==
    {Put([ServedCentral EXCEPT !.geofencingAway = away, !.fanCirculate = circulate],
         "schedOverrideDuration", 60) :
        away \in BOOLEAN, circulate \in {0, 1}}
    \cup {[ServedWallUnit EXCEPT !.iduOperatingMode = op_mode,
                                 !.oduPowerfulOperationRequest = boost] :
            op_mode \in {DAIKIN_HVAC_MODE_COOL, DAIKIN_HVAC_MODE_DRY,
                         WALL_UNIT_FAN_MODE_DEFAULT},
            boost \in BOOLEAN}

\* what the vendor API answers during each client call of a command
EntityServers ==
    {MutationServer(<<p>>, "200", "200") : p \in {"200", "conn", "500"}}
    \cup {MutationServer(<<"401_expired", "200">>, "200", "200")}

\* a command's servers: at most one of its calls is answered anything but 200
CommandServers ==
    {srvs \in EntityServers \X EntityServers :
        \E i \in 1..2 : srvs[i] = MutationServer(<<"200">>, "200", "200")}

\* the fan modes, presets and schedule days that callers pass
FanModeInputs ==
    {FAN_ON, FAN_AUTO, FAN_SCHEDULE, FAN_LOW, FAN_MEDIUM, FAN_HIGH,
     WALL_UNIT_FAN_SPEED_TO_HASS(3), "5", "turbo"}

PresetInputs ==
    {PRESET_AWAY, PRESET_SCHEDULE, PRESET_MANUAL, PRESET_TEMP_HOLD,
     PRESET_ECONO, PRESET_BOOST, PRESET_NONE, "sleep"}

DayInputs ==
    {<<"m", "O", "N", "d", "a", "y">>, <<"F", "u", "n", "d", "a", "y">>, <<"s", "u">>}

\* the keyword arguments of a schedule command: all five, or all but the label
ScheduleInputs ==
    {[Time |-> 24, Enabled |-> TRUE, Label |-> "wakeup", hsp |-> 2000, csp |-> 2400],
     [Time |-> 24, Enabled |-> TRUE, hsp |-> 2000, csp |-> 2400]}

\* Thermostat.__init__ on the record of the device at index 0
EntityOf(list) ==
    Put(apply_thermostat_state(list[1]), "update_without_throttle", FALSE)

\* async_setup_entry: the client is constructed, the first poll is answered
\* and the entity is built from the record it stored
EntityInitOf(devices) ==
    \E served \in devices :
        LET c0 == [thermostats |-> <<>>, skip_next |-> FALSE, authenticated |-> FALSE,
                   access_token |-> "tok0", refresh_token |-> "ref0",
                   file_based_config |-> FALSE,
                   config |-> [EMAIL |-> "user@example.org", PASSWORD |-> "secret",
                               ACCESS_TOKEN |-> "tok0", REFRESH_TOKEN |-> "ref0"],
                   http |-> <<>>]
            first == update(c0, [devices |-> "200", list |-> <<HarnessEntry>>,
                                 detail |-> <<[kind |-> "ok", data |-> served]>>])
        IN  /\ raw = served
            /\ dev = EmptyRec
            /\ stage = "entity"
            /\ thermostats = first.c.thermostats
            /\ skip_next = first.c.skip_next
            /\ authenticated = first.c.authenticated
            /\ access_token = first.c.access_token
            /\ refresh_token = first.c.refresh_token
            /\ file_based_config = first.c.file_based_config
            /\ config = first.c.config
            /\ http = <<>>
            /\ ret = Idle
            /\ muts = 0
            /\ dirty = 0
            /\ ent = EntityOf(first.c.thermostats)

EntityInit == EntityInitOf(EntityServed)

\* a command runs to its end: the client's and the entity's attributes after
\* it, and the record of the command
EntityCommit(op, index, args, r) ==
    /\ ret = Idle
    /\ r.calls # <<>> => dirty < MaxDirty
    /\ thermostats' = r.c.thermostats
    /\ skip_next' = r.c.skip_next
    /\ authenticated' = r.c.authenticated
    /\ access_token' = r.c.access_token
    /\ refresh_token' = r.c.refresh_token
    /\ file_based_config' = r.c.file_based_config
    /\ config' = r.c.config
    /\ http' = r.c.http
    /\ ent' = r.e
    /\ ret' = [op |-> op, kind |-> "command", index |-> index, args |-> args,
               result |-> r.result, calls |-> r.calls, muts |-> muts]
    /\ muts' = muts + Cardinality({i \in DOMAIN r.calls : r.calls[i].reached})
    /\ dirty' = IF r.calls # <<>> THEN dirty + 1 ELSE dirty
    /\ UNCHANGED <<raw, dev, stage>>

\* Thermostat.async_update: the coordinator's poll, then the entity's state
\* from the record the client holds
AsyncUpdate ==
    /\ ret = Idle
    /\ \E srv \in PollServers :
        LET r == update(Client, srv)
        IN  /\ thermostats' = r.c.thermostats
            /\ skip_next' = r.c.skip_next
            /\ authenticated' = r.c.authenticated
            /\ access_token' = r.c.access_token
            /\ refresh_token' = r.c.refresh_token
            /\ file_based_config' = r.c.file_based_config
            /\ config' = r.c.config
            /\ http' = r.c.http
            /\ ent' = IF Raises(r) THEN ent ELSE EntityOf(r.c.thermostats)
            /\ ret' = [op |-> "update", kind |-> "update", index |-> None, args |-> <<>>,
                       result |-> r.result, calls |-> <<>>, muts |-> muts]
            /\ muts' = 0
            /\ dirty' = IF Count(r.c.http, Stored) > 0 THEN 0 ELSE dirty
            /\ UNCHANGED <<raw, dev, stage>>

ThermostatSetPresetMode ==
    \E index \in Indexes, preset_mode \in PresetInputs, srvs \in CommandServers :
        EntityCommit("set_preset_mode", index, <<preset_mode>>,
                     thermostat_set_preset_mode(Client, ent, index, preset_mode, srvs))

ThermostatSetFanMode ==
    \E index \in Indexes, fan_mode \in FanModeInputs, srvs \in CommandServers :
        EntityCommit("set_fan_mode", index, <<fan_mode>>,
                     thermostat_set_fan_mode(Client, ent, index, fan_mode, srvs))

ThermostatSetThermostatSchedule ==
    \E index \in Indexes, day \in DayInputs, kw \in ScheduleInputs, srvs \in CommandServers :
        EntityCommit("set_thermostat_schedule", index, <<day>>,
                     thermostat_set_thermostat_schedule(Client, ent, index, day, kw, srvs))

NextEntity ==
    \/ AsyncUpdate
    \/ ThermostatSetPresetMode
    \/ ThermostatSetFanMode
    \/ ThermostatSetThermostatSchedule
    \/ Return

SpecEntity == EntityInit /\ [][NextEntity]_vars

(***************************************************************************)
(* An entity whose temperature is commanded: a Central device in each      *)
(* mode, in Auto with and without a schedule and with each kind of hold    *)
(* duration, or a wall unit in each mode, on or off.                       *)
(***************************************************************************)
TemperatureServed ==
    {[ServedCentral EXCEPT !.mode = mode, !.geofencingAway = FALSE] :
        mode \in {DAIKIN_HVAC_MODE_HEAT, DAIKIN_HVAC_MODE_COOL, DAIKIN_HVAC_MODE_OFF}}
    \cup {[ServedCentral EXCEPT !.mode = DAIKIN_HVAC_MODE_AUTO, !.geofencingAway = FALSE,
                                !.schedEnabled = sched] : sched \in BOOLEAN}
    \cup {Put([ServedCentral EXCEPT !.mode = DAIKIN_HVAC_MODE_AUTO,
                                    !.geofencingAway = FALSE, !.schedEnabled = sched],
               "schedOverrideDuration", duration) :
            sched \in BOOLEAN, duration \in {60, NotAnInt}}
    \cup {[ServedWallUnit EXCEPT !.iduOperatingMode = op_mode] :
            op_mode \in {DAIKIN_HVAC_MODE_HEAT, DAIKIN_HVAC_MODE_COOL, DAIKIN_HVAC_MODE_AUTO,
                         DAIKIN_HVAC_MODE_DRY, WALL_UNIT_FAN_MODE_DEFAULT}}
    \cup {[ServedWallUnit EXCEPT !.iduOnOff = FALSE]}

\* the keyword arguments of a temperature command, in hundredths of a degree
TemperatureInputs ==
    {[temperature |-> 2250], [target_temp_low |-> 1900, target_temp_high |-> 2500],
     [target_temp_low |-> 1900], [target_temp_high |-> 2500]}

ThermostatSetTemperature ==
    \E index \in Indexes, kw \in TemperatureInputs, srv \in EntityServers :
        EntityCommit("set_temperature", index, <<kw>>,
                     thermostat_set_temperature(Client, ent, index, kw, <<srv>>))

NextTemperature ==
    \/ AsyncUpdate
    \/ ThermostatSetTemperature
    \/ Return

SpecTemperature == EntityInitOf(TemperatureServed) /\ [][NextTemperature]_vars


(***************************************************************************)
(* Properties of the resolver and the normalizer, under SpecResolver       *)
(***************************************************************************)
\* C7: a wall unit whose record has iduOnOff false resolves to mode Off in the
\* entity, and to the Off code in the normalizer, whatever iduOperatingMode
\* and the record's mode field hold.
C7_OffWhenIduOff ==
    (stage = "entity" /\ ent.is_wall_unit /\ IsFalse(dev, "iduOnOff")) =>
        /\ ent.hvac_mode = HVAC_OFF
        /\ wall_unit_mode(dev) = DAIKIN_HVAC_MODE_OFF
        /\ ~Has(raw, "mode") => dev["mode"] = DAIKIN_HVAC_MODE_OFF

\* a switched-off wall unit whose operating mode and mode fields name running modes
C7_Witness ==
    /\ stage = "entity"
    /\ ent.is_wall_unit
    /\ IsFalse(dev, "iduOnOff")
    /\ Get(dev, "iduOperatingMode", None) = 1
    /\ Get(raw, "mode", None) = DAIKIN_HVAC_MODE_COOL
    /\ ent.hvac_mode = HVAC_OFF

\* C8: normalizing a normalized record changes no field, for every raw record
\* of either family.
C8_NormalizeIdempotent ==
    stage = "normalized" =>
        /\ normalize_device_info(normalize_device_info(raw)) = normalize_device_info(raw)
        /\ normalize_device_info(dev) = dev

\* a wall unit whose mode, active and home setpoints all come from normalization
C8_Witness ==
    /\ stage = "normalized"
    /\ client_is_wall_unit(raw)
    /\ Has(raw, "iduCoolSetpoint")
    /\ ~Has(raw, "mode") /\ ~Has(raw, "cspActive") /\ ~Has(raw, "cspHome")
    /\ ~Has(raw, "wallUnitFanModeValue")
    /\ dev["cspHome"] = raw["iduCoolSetpoint"]
    /\ Has(dev, "mode") /\ Has(dev, "wallUnitFanModeValue") /\ Has(dev, "schedEnabled")

InSeq(x, seq) == \E i \in 1..Len(seq) : seq[i] = x

\* C9: a Central entity's operation list holds Auto exactly when it holds both
\* Heat and Cool; Auto, when held, is first; Off is always held, and last.
C9_CentralModes ==
    (stage = "entity" /\ ~ent.is_wall_unit) =>
        LET ops == ent.operation_list IN
        /\ InSeq(HVAC_AUTO, ops) <=> (InSeq(HVAC_HEAT, ops) /\ InSeq(HVAC_COOL, ops))
        /\ InSeq(HVAC_AUTO, ops) => ops[1] = HVAC_AUTO
        /\ Len(ops) >= 1
        /\ ops[Len(ops)] = HVAC_OFF
        /\ \A i \in 1..Len(ops) : ops[i] = HVAC_OFF => i = Len(ops)

\* a Central device that heats and cools
C9_Witness ==
    /\ stage = "entity"
    /\ ~ent.is_wall_unit
    /\ ent.operation_list = <<HVAC_AUTO, HVAC_HEAT, HVAC_COOL, HVAC_OFF>>

\* a Central device that only cools: no Auto
C9_WitnessCoolOnly ==
    /\ stage = "entity"
    /\ ~ent.is_wall_unit
    /\ ent.operation_list = <<HVAC_COOL, HVAC_OFF>>


\* C12: a Central entity's preset is Away when geofencingAway is truthy,
\* whatever schedOverride and schedEnabled are; otherwise Temp Hold when
\* schedOverride is 1; otherwise Schedule when schedEnabled is truthy;
\* otherwise Manual.
C12_PresetPriority ==
    (stage = "entity" /\ ~ent.is_wall_unit) =>
        LET away == Has(dev, "geofencingAway") /\ dev["geofencingAway"] = TRUE
            hold == Has(dev, "schedOverride") /\ dev["schedOverride"] = 1
            sched == Has(dev, "schedEnabled") /\ dev["schedEnabled"] = TRUE
        IN  /\ away => ent.preset_mode = PRESET_AWAY
            /\ (~away /\ hold) => ent.preset_mode = PRESET_TEMP_HOLD
            /\ (~away /\ ~hold /\ sched) => ent.preset_mode = PRESET_SCHEDULE
            /\ (~away /\ ~hold /\ ~sched) => ent.preset_mode = PRESET_MANUAL

\* a cooling Central record that is away, overridden and scheduled at once
C12_Witness ==
    /\ stage = "entity"
    /\ ~ent.is_wall_unit
    /\ Get(dev, "mode", None) = DAIKIN_HVAC_MODE_COOL
    /\ Get(dev, "geofencingAway", FALSE) = TRUE
    /\ Get(dev, "schedOverride", None) = 1
    /\ Get(dev, "schedEnabled", FALSE) = TRUE
    /\ ent.preset_mode = PRESET_AWAY
    /\ ent.hvac_mode = HVAC_COOL

\* the mode codes of DAIKIN_HVAC_TO_HASS
KnownModeCodes ==
    {DAIKIN_HVAC_MODE_HEAT, DAIKIN_HVAC_MODE_COOL, DAIKIN_HVAC_MODE_AUTO,
     DAIKIN_HVAC_MODE_DRY, DAIKIN_HVAC_MODE_OFF, DAIKIN_HVAC_MODE_AUXHEAT}

\* C13: for a Central entity, in Auto there is no single target and low is
\* hspActive, high is cspActive; in Heat the target is hspActive, in Cool it
\* is cspActive, low and high being none; in every other mode target, low and
\* high are none; a mode code outside the table resolves to Off.
C13_CentralTargets ==
    (stage = "entity" /\ ~ent.is_wall_unit) =>
        LET target == target_temperature(ent)
            low == target_temperature_low(ent)
            high == target_temperature_high(ent)
        IN  /\ ent.hvac_mode = HVAC_AUTO =>
                    target = None /\ low = dev["hspActive"] /\ high = dev["cspActive"]
            /\ ent.hvac_mode = HVAC_HEAT =>
                    target = dev["hspActive"] /\ low = None /\ high = None
            /\ ent.hvac_mode = HVAC_COOL =>
                    target = dev["cspActive"] /\ low = None /\ high = None
            /\ ent.hvac_mode \notin {HVAC_AUTO, HVAC_HEAT, HVAC_COOL} =>
                    target = None /\ low = None /\ high = None
            /\ (Has(dev, "mode") /\ dev["mode"] \notin KnownModeCodes) =>
                    ent.hvac_mode = HVAC_OFF
            /\ Get(dev, "mode", None) = DAIKIN_HVAC_MODE_AUTO => ent.hvac_mode = HVAC_AUTO
            /\ Get(dev, "mode", None) = DAIKIN_HVAC_MODE_HEAT => ent.hvac_mode = HVAC_HEAT
            /\ Get(dev, "mode", None) = DAIKIN_HVAC_MODE_COOL => ent.hvac_mode = HVAC_COOL

\* a Central record in Auto: the range is the pair of active setpoints
C13_Witness ==
    /\ stage = "entity"
    /\ ~ent.is_wall_unit
    /\ ent.hvac_mode = HVAC_AUTO
    /\ target_temperature(ent) = None
    /\ target_temperature_low(ent) = 1800
    /\ target_temperature_high(ent) = 2400

\* a Central record whose mode code is outside the table
C13_WitnessUnknownCode ==
    /\ stage = "entity"
    /\ ~ent.is_wall_unit
    /\ Get(dev, "mode", None) = MaxModeCode
    /\ ent.hvac_mode = HVAC_OFF
    /\ target_temperature(ent) = None


\* the record is a wall unit that is on, with the dry operating code
OnAndDry ==
    /\ stage = "entity"
    /\ ent.is_wall_unit
    /\ Has(dev, "iduOnOff") /\ dev["iduOnOff"] = TRUE
    /\ Has(dev, "iduOperatingMode") /\ dev["iduOperatingMode"] = DAIKIN_HVAC_MODE_DRY

\* the resolved state of a wall unit in Dry: no fan choices, no fan mode, no
\* target, and the three feature flags cleared
ResolvedDry ==
    /\ ent.hvac_mode = HVAC_DRY
    /\ ent.fan_modes = <<>>
    /\ ent.fan_mode = NoneStr
    /\ target_temperature(ent) = None
    /\ ent.supported_features
          \cap {"TARGET_TEMPERATURE", "TARGET_TEMPERATURE_RANGE", "FAN_MODE"} = {}

FanSpeedLabel ==
    [c \in {10, 11, 3, 4, 5, 6, 7} |->
        CASE c = 10 -> "auto" [] c = 11 -> "quiet" [] c = 3 -> "low"
          [] c = 4 -> "medium_low" [] c = 5 -> "medium" [] c = 6 -> "medium_high"
          [] OTHER -> "high"]

\* decimal strings of 0, 1, 2, ...
Decimal == <<"0", "1", "2", "3", "4", "5", "6", "7", "8", "9", "10", "11", "12", "13">>

\* C15: the fan mode of a wall unit not in Dry is the label of the code found
\* in the fan-speed field of its mode (of its last operating mode when off):
\* one of seven distinct non-empty labels for the codes 10, 11, 3, 4, 5, 6, 7,
\* and the decimal string of any other code.
C15_FanSpeedTotal ==
    /\ \A c \in DOMAIN FanSpeedLabel :
            /\ WALL_UNIT_FAN_SPEED_TO_HASS(c) = FanSpeedLabel[c]
            /\ FanSpeedLabel[c] # ""
            /\ \A c2 \in DOMAIN FanSpeedLabel : FanSpeedLabel[c2] = FanSpeedLabel[c] => c2 = c
    /\ (stage = "entity" /\ ent.is_wall_unit /\ ent.hvac_mode # HVAC_DRY) =>
            LET code == wall_unit_fan_speed(dev, ent.hvac_mode) IN
            code # None =>
                ent.fan_mode = IF code \in DOMAIN FanSpeedLabel THEN FanSpeedLabel[code]
                               ELSE Decimal[code + 1]

\* a cooling wall unit whose cool fan speed is the unknown code 12
C15_Witness ==
    /\ stage = "entity"
    /\ ent.is_wall_unit
    /\ ent.hvac_mode = HVAC_COOL
    /\ Get(dev, "iduCoolFanSpeed", None) = MaxFanSpeedCode
    /\ ent.fan_mode = Decimal[MaxFanSpeedCode + 1]

\* a heating wall unit whose heat fan speed is 11: quiet
C15_WitnessQuiet ==
    /\ stage = "entity"
    /\ ent.is_wall_unit
    /\ ent.hvac_mode = HVAC_HEAT
    /\ Get(dev, "iduHeatFanSpeed", None) = 11
    /\ ent.fan_mode = "quiet"


(***************************************************************************)
(* Properties of the client, under Spec                                    *)
(***************************************************************************)
\* the PUT requests of the call that just ended, in order
Puts == SelectSeq(http, IsPut)

IsMutation == ret.kind = "mutation"

\* the call that just ended had its first PUT answered 401 authorization_expired
FirstPutExpired == IsMutation /\ Len(Puts) >= 1 /\ Puts[1].status = "401_expired"

\* the record the client caches for the device the call named
CachedAfter == thermostats[ret.index + 1]

\* C1: a mutation whose first PUT is answered 401 authorization_expired, whose
\* token refresh succeeds and whose second PUT is answered 200 returns
\* success, having issued exactly one refresh and exactly two PUTs, the second
\* PUT to the same device with the same body and action label as the first.
C1_RetryAfterRefresh ==
    (/\ FirstPutExpired
     /\ ret.srv.refresh = "200"
     /\ ret.srv.put = <<"401_expired", "200">>
     /\ ~file_based_config) =>
        /\ ret.result = "ok"
        /\ Count(http, IsRefresh) = 1
        /\ Len(Puts) = 2
        /\ Len(Puts) = 2 => /\ Puts[2].device = Puts[1].device
                            /\ Puts[2].body = Puts[1].body
                            /\ Puts[2].action = Puts[1].action

\* C2: a mutation that entered the request layer leaves skip_next set; an
\* update() leaves it clear, and fetches exactly when no mutation entered the
\* request layer since the update() before it: one poll is suppressed, however
\* many mutations there were.
C2_OnePollSuppressed ==
    /\ (IsMutation /\ ret.reached) => skip_next /\ muts >= 1
    /\ ret.kind = "update" =>
        /\ ~skip_next
        /\ muts = 0
        /\ Count(http, IsGet) > 0 <=> ret.muts = 0

\* an update() after two mutations: nothing fetched, the flag cleared
C2_Witness ==
    /\ ret.kind = "update"
    /\ ret.muts = 2
    /\ http = <<>>
    /\ ~skip_next
    /\ Len(thermostats) = 1

\* C3: when a mutation call returns, the cached record holds, for every field
\* of the body it sent, the value sent.
C3_ShadowHoldsBody ==
    (IsMutation /\ ~Raises(ret) /\ Len(Puts) >= 1) =>
        \A i \in 1..Len(Puts) :
            \A k \in DOMAIN Puts[i].body.v :
                Has(CachedAfter, k) /\ CachedAfter[k] = Puts[i].body.v[k]

\* C4: a mutation call, whatever the server answers, ends having issued at most
\* one token refresh and at most one PUT after the first.
C4_OneRefreshOneRetry ==
    IsMutation =>
        /\ Count(http, IsRefresh) <= 1
        /\ Len(Puts) <= 2

\* a call whose first PUT was refused as expired and that refreshed the token once
C4_Witness ==
    /\ FirstPutExpired
    /\ Count(http, IsRefresh) = 1
    /\ ret.srv.put = <<"401_expired", "401_expired">>
    /\ access_token = "tok1"

\* C5: when the server answers 401 authorization_expired to the PUT again after
\* a successful refresh, the mutation raises ExpiredTokenError.
C5_SecondExpiryRaises ==
    (/\ FirstPutExpired
     /\ ret.srv.refresh = "200"
     /\ ret.srv.put = <<"401_expired", "401_expired">>
     /\ ~file_based_config) =>
        ret.result = "raise:ExpiredTokenError"

\* C6: when the token refresh is answered non-2xx and the fallback login
\* fails too, the login was tried, the tokens are what they were, the PUT
\* is not retried and the mutation returns the failure value None.
C6_FailedRefreshFails ==
    [][(/\ ret'.kind = "mutation"
        /\ Len(SelectSeq(http', IsPut)) >= 1
        /\ SelectSeq(http', IsPut)[1].status = "401_expired"
        /\ ret'.srv.refresh = "400"
        /\ ret'.srv.login \in {"conn", "403"}) =>
            /\ Count(http', IsRefresh) = 1
            /\ Count(http', IsLogin) = 1
            /\ access_token' = access_token
            /\ refresh_token' = refresh_token
            /\ Len(SelectSeq(http', IsPut)) = 1
            /\ ret'.result = "None"]_vars

\* C17: a poll whose device list request fails ends in one of three outcomes
\* that tell the failures apart: the authorization-expired error on 401, a
\* transport failure when there is no answer, and an upstream error, which is
\* neither of the two, on any other status.
C17_ListFailuresDistinct ==
    (ret.kind = "update" /\ Count(http, IsGet) > 0) =>
        /\ ret.srv.devices = "401" => ret.result = "raise:ExpiredTokenError"
        /\ ret.srv.devices = "conn" => ret.result \notin {"ok", "raise:ExpiredTokenError"}
        /\ ret.srv.devices = "500" =>
                ret.result \notin {"ok", "None", "raise:ExpiredTokenError"}

\* the call made a login or a token refresh that the server answered 200
TokensGranted ==
    \E i \in 1..Len(http) :
        /\ IsRefresh(http[i]) \/ IsLogin(http[i])
        /\ http[i].status = "200"

\* C18: with file-based configuration, after a call in which a login or a
\* token refresh succeeded, the persisted credentials hold EMAIL, PASSWORD,
\* ACCESS_TOKEN and REFRESH_TOKEN, the two tokens being the session's.
C18_PersistedCredentials ==
    (IsMutation /\ file_based_config /\ TokensGranted) =>
        /\ DOMAIN config = {"EMAIL", "PASSWORD", "ACCESS_TOKEN", "REFRESH_TOKEN"}
        /\ config["ACCESS_TOKEN"] = access_token
        /\ config["REFRESH_TOKEN"] = refresh_token
        /\ ret.result # "raise:AttributeError"


Abs(x) == IF x < 0 THEN 0 - x ELSE x

\* C10: set_wall_unit_temperature with a temperature T that is not halfway
\* between two multiples of 0.5, in Heat, Cool or Auto mode, sends the multiple
\* of 0.5 nearest to T in the idu{Heat,Cool,Auto}Setpoint field of the mode,
\* and the cached record holds the value sent in that field.
C10_NearestHalfDegree ==
    (/\ ret.kind = "mutation"
     /\ ret.op = "set_wall_unit_temperature"
     /\ ret.reached
     /\ ret.args[1] # None
     /\ ret.args[1] % 50 # 25
     /\ Get(CachedAfter, "mode", None) \in
            {DAIKIN_HVAC_MODE_HEAT, DAIKIN_HVAC_MODE_COOL, DAIKIN_HVAC_MODE_AUTO}) =>
        LET T == ret.args[1]
            mode == CachedAfter["mode"]
            field == IF mode = DAIKIN_HVAC_MODE_HEAT THEN "iduHeatSetpoint"
                     ELSE IF mode = DAIKIN_HVAC_MODE_COOL THEN "iduCoolSetpoint"
                     ELSE "iduAutoSetpoint"
            sent == Puts[1].body.v
        IN  /\ Len(Puts) >= 1
            /\ Has(sent, field)
            /\ sent[field] % 50 = 0
            /\ Abs(sent[field] - T) < 25
            /\ Has(CachedAfter, field)
            /\ CachedAfter[field] = sent[field]

\* 21.3 asked for in Heat mode: 21.5 sent and cached
C10_Witness ==
    /\ ret.kind = "mutation"
    /\ ret.op = "set_wall_unit_temperature"
    /\ ret.args = <<2130, DAIKIN_HVAC_MODE_HEAT>>
    /\ Len(Puts) = 1
    /\ Puts[1].body.v["iduHeatSetpoint"] = 2150
    /\ CachedAfter["iduHeatSetpoint"] = 2150

\* 21.2 asked for with no mode given, the cached mode being Cool: 21.0 sent
C10_WitnessDown ==
    /\ ret.kind = "mutation"
    /\ ret.op = "set_wall_unit_temperature"
    /\ ret.args = <<2120, None>>
    /\ Len(Puts) = 1
    /\ Has(Puts[1].body.v, "iduCoolSetpoint")
    /\ Puts[1].body.v["iduCoolSetpoint"] = 2100
    /\ CachedAfter["iduCoolSetpoint"] = 2100


(***************************************************************************)
(* Properties of the poll, under SpecPoll                                  *)
(***************************************************************************)
\* the cached records of the device with this id
EntriesOf(list, id) == {list[j] : j \in {n \in 1..Len(list) : list[n]["id"] = id}}

\* C16: in a poll whose devices each answer their detail request with a
\* record or with 400 DeviceOfflineException, at least one being offline, the
\* poll raises nothing and leaves the session authenticated; every device's
\* detail is requested; every device that answered is cached with the record
\* it answered, and what is cached of an offline device is what was before.
C16_OfflineSkipped ==
    [][(/\ ret'.kind = "update"
        /\ \A i \in 1..Len(ret'.srv.detail) : ret'.srv.detail[i].kind \in {"ok", "offline"}
        /\ \E i \in 1..Len(ret'.srv.detail) : ret'.srv.detail[i].kind = "offline") =>
            LET srv == ret'.srv IN
            /\ ret'.result = "ok"
            /\ authenticated'
            /\ \A i \in 1..Len(srv.list) :
                    /\ \E n \in 1..Len(http') :
                            /\ http'[n].path = "/deviceData"
                            /\ http'[n].device = srv.list[i].id
                    /\ srv.detail[i].kind = "offline" =>
                            EntriesOf(thermostats', srv.list[i].id)
                                = EntriesOf(thermostats, srv.list[i].id)
                    /\ srv.detail[i].kind = "ok" =>
                            /\ Cardinality(EntriesOf(thermostats', srv.list[i].id)) = 1
                            /\ \A e \in EntriesOf(thermostats', srv.list[i].id) :
                                    /\ e["name"] = srv.list[i].name
                                    /\ \A k \in DOMAIN srv.detail[i].data :
                                            e[k] = srv.detail[i].data[k]]_vars

\* the first device was offline in every poll so far and the second answered:
\* the cache holds the second device alone, with the temperature it reported
C16_Witness ==
    /\ ret.kind = "update"
    /\ ret.result = "ok"
    /\ ret.srv.detail[1].kind = "offline"
    /\ ret.srv.detail[2].kind = "ok"
    /\ Len(http) = 3
    /\ authenticated
    /\ Len(thermostats) = 1
    /\ thermostats[1]["id"] = "dev-2"
    /\ thermostats[1]["iduRoomTemp"] = 2250

\* the second device went offline after a poll that cached both: its record stays
C16_WitnessKept ==
    /\ ret.kind = "update"
    /\ ret.srv.detail[1].kind = "ok"
    /\ ret.srv.detail[2].kind = "offline"
    /\ Len(thermostats) = 2
    /\ thermostats[1]["tempIndoor"] = 2200
    /\ thermostats[2]["id"] = "dev-2"



(***************************************************************************)
(* Properties of the entity's commands, under SpecEntity                   *)
(***************************************************************************)
\* the command that just ended
Commanded(op, arg) == ret.kind = "command" /\ ret.op = op /\ ret.args = <<arg>>

\* the client calls the command made, by name, and whether each entered
\* make_request
CallsMade == [i \in DOMAIN ret.calls |-> ret.calls[i].op]

AllReached == \A i \in DOMAIN ret.calls : ret.calls[i].reached

DisablesAway(rq) ==
    IsPut(rq) /\ rq.action = "set away mode" /\ rq.body.v["geofencingAway"] = FALSE

ResumesProgram(rq) ==
    /\ IsPut(rq)
    /\ rq.action = "resume program"
    /\ rq.body.v["schedEnabled"] = TRUE
    /\ rq.body.v["schedOverride"] = 0

\* the command issued the two mutations, disable-away before resume-program,
\* and no other
AwayThenResume ==
    /\ CallsMade = <<"set_away", "resume_program">>
    /\ AllReached
    /\ \E n \in 1..(Len(Puts) - 1) :
        \A i \in 1..Len(Puts) :
            IF i <= n THEN DisablesAway(Puts[i]) ELSE ResumesProgram(Puts[i])

\* C11: set_preset_mode(Schedule) on a Central device whose current preset is
\* Away issues exactly two mutations, in this order: disable-away
\* (geofencingAway false), then resume-program (schedEnabled true,
\* schedOverride 0); no other mutation is issued.
C11_ScheduleFromAway ==
    [][(/\ ~ent.is_wall_unit
        /\ ent.preset_mode = PRESET_AWAY
        /\ Commanded("set_preset_mode", PRESET_SCHEDULE)')
       => AwayThenResume']_vars

\* the same, of the commands whose PUTs were all answered something other
\* than 401 authorization_expired
C11_ScheduleFromAwayNoExpiry ==
    [][(/\ ~ent.is_wall_unit
        /\ ent.preset_mode = PRESET_AWAY
        /\ Commanded("set_preset_mode", PRESET_SCHEDULE)'
        /\ \A i \in 1..Len(Puts') : Puts'[i].status # "401_expired")
       => AwayThenResume']_vars

C11_Witness ==
    /\ Commanded("set_preset_mode", PRESET_SCHEDULE)
    /\ AwayThenResume
    /\ ent.preset_mode = PRESET_SCHEDULE

\* the fan modes, presets and schedule days the family of entity e recognizes
RecognizedFanMode(e, fan_mode) ==
    IF e.is_wall_unit
        THEN \/ \E code \in WALL_UNIT_FAN_SPEED_CODES :
                    WALL_UNIT_FAN_SPEED_TO_HASS(code) = fan_mode
             \/ \E n \in 0..99 : Str(n) = fan_mode
        ELSE fan_mode \in {FAN_ON, FAN_AUTO, FAN_SCHEDULE, FAN_LOW, FAN_MEDIUM, FAN_HIGH}

RecognizedPreset(e, preset_mode) ==
    IF e.is_wall_unit
        THEN preset_mode \in {PRESET_ECONO, PRESET_BOOST, PRESET_NONE}
        ELSE preset_mode \in {PRESET_AWAY, PRESET_SCHEDULE, PRESET_MANUAL,
                              PRESET_TEMP_HOLD}

RecognizedDay(day) == \E i \in DOMAIN WEEKDAY : WEEKDAY[i] = day_capitalize(day)

\* the command recorded in r carried a value that entity e does not recognize
Unrecognized(e, r) ==
    /\ r.kind = "command"
    /\ \/ r.op = "set_fan_mode" /\ ~RecognizedFanMode(e, r.args[1])
       \/ r.op = "set_preset_mode" /\ ~RecognizedPreset(e, r.args[1])
       \/ r.op = "set_thermostat_schedule" /\ ~RecognizedDay(r.args[1])

\* C19: a command carrying a fan mode, preset or schedule day outside the
\* recognized set is a no-op for both families: it raises nothing, issues no
\* mutation, and leaves the cached device record, the entity's reported
\* state and the skip-next-poll flag unchanged.
C19_UnrecognizedIsNoOp ==
    [][Unrecognized(ent, ret')
       => /\ ~Raises(ret')
          /\ ret'.calls = <<>>
          /\ http' = <<>>
          /\ muts' = muts
          /\ thermostats' = thermostats
          /\ ent' = ent
          /\ skip_next' = skip_next]_vars

\* an unrecognized fan mode was commanded on a wall unit that is not in dry mode
C19_Witness ==
    /\ Unrecognized(ent, ret)
    /\ ret.op = "set_fan_mode"
    /\ ent.is_wall_unit
    /\ ent.hvac_mode # HVAC_DRY

C19_WitnessCentralFan ==
    Unrecognized(ent, ret) /\ ret.op = "set_fan_mode" /\ ~ent.is_wall_unit

C19_WitnessPreset ==
    /\ Unrecognized(ent, ret)
    /\ ret.op = "set_preset_mode"
    /\ ret.args[1] # ent.preset_mode

C19_WitnessDay ==
    Unrecognized(ent, ret) /\ ret.op = "set_thermostat_schedule" /\ ~ent.is_wall_unit

\* the body of the PUT that sets the econo flag, and of the one that sets
\* the boost flag
EconoBody(active) == Put(EmptyRec, "iduEconoModeSetting", active)

BoostBody(active) == Put(EmptyRec, "oduPowerfulOperationRequest", active)

\* the command recorded in r, whose requests were log, issued two mutations
\* and no other: the first with body b1, then the second with body b2
SentInOrder(r, log, b1, b2) ==
    LET puts == SelectSeq(log, IsPut)
    IN  /\ Len(r.calls) = 2
        /\ \A i \in 1..2 : r.calls[i].reached
        /\ \E n \in 1..(Len(puts) - 1) :
            \A i \in 1..Len(puts) :
                IF i <= n THEN puts[i].body.v = b1 ELSE puts[i].body.v = b2

NoMutation(r, log) == r.calls = <<>> /\ log = <<>>

\* a cached record holds the econo flag and the boost flag, both true
BothFlags ==
    \E i \in DOMAIN thermostats :
        Truthy(thermostats[i], "iduEconoModeSetting")
            /\ Truthy(thermostats[i], "oduPowerfulOperationRequest")

\* what a preset command on a wall unit whose state was e has to have issued
PresetIssued(e, preset_mode, r, log) ==
    IF preset_mode = e.preset_mode
       \/ (preset_mode = PRESET_ECONO /\ e.hvac_mode = HVAC_FAN_ONLY)
        THEN NoMutation(r, log)
    ELSE IF preset_mode = PRESET_ECONO
        THEN SentInOrder(r, log, EconoBody(TRUE), BoostBody(FALSE))
    ELSE IF preset_mode = PRESET_BOOST
        THEN SentInOrder(r, log, BoostBody(TRUE), EconoBody(FALSE))
    ELSE IF preset_mode = PRESET_NONE
        THEN \/ SentInOrder(r, log, BoostBody(FALSE), EconoBody(FALSE))
             \/ SentInOrder(r, log, EconoBody(FALSE), BoostBody(FALSE))
    ELSE NoMutation(r, log)

\* C20: set_preset_mode on a wall unit issues no mutation when the requested
\* preset equals the current one or when Econo is requested in FanOnly mode;
\* otherwise Econo sends econo true then boost false, Boost sends boost true
\* then econo false, None sends both false, and any other value is ignored;
\* after every completed command the cached record never has both the econo
\* flag and the boost flag true.
C20_WallUnitPreset ==
    [][ent.is_wall_unit /\ ret'.kind = "command"
       => /\ ret'.op = "set_preset_mode" => PresetIssued(ent, ret'.args[1], ret', http')
          /\ ~Raises(ret') => ~BothFlags']_vars

\* the same, of the commands whose PUTs were all answered something other
\* than 401 authorization_expired, the flags being those of the record after
\* a preset command that issued its mutations
C20_WallUnitPresetNoExpiry ==
    [][(/\ ent.is_wall_unit
        /\ ret'.kind = "command"
        /\ ret'.op = "set_preset_mode"
        /\ \A i \in 1..Len(Puts') : Puts'[i].status # "401_expired")
       => /\ PresetIssued(ent, ret'.args[1], ret', http')
          /\ ret'.calls # <<>> => ~BothFlags']_vars

\* Econo was commanded on a wall unit in Boost, and both mutations were sent
C20_Witness ==
    /\ ent.is_wall_unit
    /\ Commanded("set_preset_mode", PRESET_ECONO)
    /\ SentInOrder(ret, http, EconoBody(TRUE), BoostBody(FALSE))
    /\ ent.preset_mode = PRESET_ECONO
    /\ ~Truthy(thermostats[1], "oduPowerfulOperationRequest")

\* a command has ended without an exception and the record holds both flags
C20_WitnessBothFlags ==
    /\ ent.is_wall_unit
    /\ ret.kind = "command"
    /\ ~Raises(ret)
    /\ BothFlags


(***************************************************************************)
(* Properties of the temperature command, under SpecTemperature            *)
(***************************************************************************)
\* the keyword arguments of the temperature command that just ended
TemperatureArgs(r) == r.args[1]

\* the command recorded in r, whose requests were log, issued one mutation
\* and no other, every PUT of it with the body given
SentOnce(r, log, body) ==
    LET puts == SelectSeq(log, IsPut)
    IN  /\ Len(r.calls) = 1
        /\ r.calls[1].reached
        /\ puts # <<>>
        /\ \A i \in 1..Len(puts) : puts[i].body.v = body

\* the hold that a range command with arguments kw has to send for a device
\* whose record was t and whose preset was preset_mode
HoldBody(t, preset_mode, kw) ==
    LET heat == IF Has(kw, "target_temp_low") THEN kw["target_temp_low"] ELSE t["hspHome"]
        cool == IF Has(kw, "target_temp_high") THEN kw["target_temp_high"] ELSE t["cspHome"]
        duration == IF Has(t, "schedOverrideDuration")
                       /\ t["schedOverrideDuration"] # NotAnInt
                        THEN t["schedOverrideDuration"] ELSE 0
    IN  IF preset_mode = PRESET_MANUAL
            THEN [hspHome |-> heat, cspHome |-> cool, schedOverride |-> 0,
                  schedEnabled |-> FALSE]
            ELSE [hspHome |-> heat, cspHome |-> cool, schedOverride |-> 1,
                  schedOverrideDuration |-> duration]

RangeCommand(r) ==
    /\ r.kind = "command"
    /\ r.op = "set_temperature"
    /\ (Has(TemperatureArgs(r), "target_temp_low")
            \/ Has(TemperatureArgs(r), "target_temp_high"))

\* C21: set_temperature on a Central device in Auto mode with a low or a high
\* target issues exactly one hold mutation: a permanent hold (schedOverride 0,
\* schedEnabled false) if the current preset is Manual, otherwise a temporary
\* hold (schedOverride 1) whose duration is the device's
\* schedOverrideDuration, or 0 when that field is absent or not an integer;
\* a side not given is filled from the stored home setpoint.
C21_AutoRangeHold ==
    [][(~ent.is_wall_unit /\ ent.hvac_mode = HVAC_AUTO /\ RangeCommand(ret'))
       => SentOnce(ret', http',
                   HoldBody(thermostats[ret'.index + 1], ent.preset_mode,
                            TemperatureArgs(ret')))]_vars

\* a temporary hold was sent with duration 0 for a device whose
\* schedOverrideDuration was not an integer, the low side from the home setpoint
C21_Witness ==
    /\ ~ent.is_wall_unit
    /\ RangeCommand(ret)
    /\ ~Has(TemperatureArgs(ret), "target_temp_low")
    /\ Has(raw, "schedOverrideDuration")
    /\ raw["schedOverrideDuration"] = NotAnInt
    /\ SentOnce(ret, http, [hspHome |-> raw["hspHome"], cspHome |-> 2500,
                            schedOverride |-> 1, schedOverrideDuration |-> 0])

C21_WitnessPermanent ==
    /\ ~ent.is_wall_unit
    /\ RangeCommand(ret)
    /\ SentOnce(ret, http, [hspHome |-> 1900, cspHome |-> 2500, schedOverride |-> 0,
                            schedEnabled |-> FALSE])

C21_WitnessDuration ==
    /\ ~ent.is_wall_unit
    /\ RangeCommand(ret)
    /\ SentOnce(ret, http, [hspHome |-> 1900, cspHome |-> 2500, schedOverride |-> 1,
                            schedOverrideDuration |-> 60])

\* C22: set_temperature on a wall unit whose current mode is Dry is a
\* complete no-op: no request is issued, no field of the cached record
\* changes, the entity's target temperature is unchanged and the
\* skip-next-poll flag is not set.
C22_DryTemperatureNoOp ==
    [][(/\ ent.is_wall_unit
        /\ ent.hvac_mode = HVAC_DRY
        /\ ret'.kind = "command"
        /\ ret'.op = "set_temperature")
       => /\ ~Raises(ret')
          /\ ret'.calls = <<>>
          /\ http' = <<>>
          /\ thermostats' = thermostats
          /\ ent'.target_temp = ent.target_temp
          /\ target_temperature(ent') = target_temperature(ent)
          /\ skip_next' = skip_next
          /\ ~skip_next']_vars

C22_Witness ==
    /\ ent.is_wall_unit
    /\ ent.hvac_mode = HVAC_DRY
    /\ ret.kind = "command"
    /\ ret.op = "set_temperature"
    /\ Has(TemperatureArgs(ret), "temperature")


(***************************************************************************)
(* Properties of the wall unit's mode command, under SpecWall              *)
(***************************************************************************)
\* the mode a caller asked for, by name ("?": none that is recognized)
RequestedMode(m) ==
    IF m.t = "int" THEN (IF m.v = DAIKIN_HVAC_MODE_OFF THEN HVAC_OFF ELSE "?")
    ELSE IF m.v \in {HVAC_OFF, HVAC_HEAT, HVAC_COOL, HVAC_AUTO, HVAC_DRY, HVAC_FAN_ONLY}
        THEN m.v
    ELSE "?"

\* the fixed code of a recognized mode
FixedCode(name) ==
    CASE name = HVAC_HEAT -> 1
      [] name = HVAC_COOL -> 2
      [] name = HVAC_AUTO -> 3
      [] name = HVAC_DRY -> 5
      [] name = HVAC_FAN_ONLY -> WALL_UNIT_FAN_MODE_DEFAULT

\* the mode command recorded in r reached a cached wall unit
ModeCommanded(r) == r.kind = "mutation" /\ r.op = "set_wall_unit_mode" /\ r.reached

\* C23: set-hvac-mode on a wall unit: Off sends iduOnOff false and leaves the
\* cached iduOperatingMode unchanged; a recognized mode sends iduOnOff true
\* together with its fixed code (heat 1, cool 2, auto 3, dry 5, fan_only the
\* default fan-mode code); unrecognized input sends iduOnOff true with the
\* device's previously known iduOperatingMode; afterwards the mode resolved
\* from the cached record equals the requested mode, for every recognized mode.
C23_WallUnitModeCommand ==
    [][ModeCommanded(ret')
       => LET requested == RequestedMode(ret'.args[1])
              before == thermostats[ret'.index + 1]
              after == thermostats'[ret'.index + 1]
              puts == SelectSeq(http', IsPut)
          IN  /\ puts # <<>>
              /\ \A i \in 1..Len(puts) :
                    LET sent == puts[i].body.v
                    IN  IF requested = HVAC_OFF
                            THEN sent = [iduOnOff |-> FALSE]
                        ELSE /\ sent["iduOnOff"] = TRUE
                             /\ sent["iduOperatingMode"] =
                                    IF requested = "?" THEN before["iduOperatingMode"]
                                    ELSE FixedCode(requested)
              /\ requested = HVAC_OFF
                    => after["iduOperatingMode"] = before["iduOperatingMode"]
              /\ requested # "?"
                    => apply_thermostat_state(after).hvac_mode = requested]_vars

\* dry was asked of a wall unit that was cooling
C23_Witness ==
    /\ ModeCommanded(ret)
    /\ RequestedMode(ret.args[1]) = HVAC_DRY
    /\ raw["iduOperatingMode"] = DAIKIN_HVAC_MODE_COOL
    /\ apply_thermostat_state(CachedAfter).hvac_mode = HVAC_DRY

C23_WitnessOff ==
    /\ ModeCommanded(ret)
    /\ RequestedMode(ret.args[1]) = HVAC_OFF
    /\ CachedAfter["iduOperatingMode"] = WALL_UNIT_FAN_MODE_DEFAULT

C23_WitnessUnrecognized ==
    /\ ModeCommanded(ret)
    /\ RequestedMode(ret.args[1]) = "?"
    /\ CachedAfter["iduOperatingMode"] = DAIKIN_HVAC_MODE_DRY


(***************************************************************************)
(* Further properties of the entity's commands, under SpecEntity           *)
(***************************************************************************)
\* what a fan command with a recognized fan_mode on a Central device whose
\* state was e has to have issued
FanIssued(e, fan_mode, r, log) ==
    LET circulate(code) == [fanCirculate |-> code]
        speed(code) == [fanCirculateSpeed |-> code]
        code == CASE fan_mode \in {FAN_AUTO, FAN_LOW} -> 0
                  [] fan_mode \in {FAN_ON, FAN_MEDIUM} -> 1
                  [] fan_mode \in {FAN_SCHEDULE, FAN_HIGH} -> 2
    IN  IF fan_mode \in {FAN_ON, FAN_AUTO, FAN_SCHEDULE}
            THEN SentOnce(r, log, circulate(code))
        ELSE IF e.fan_mode = FAN_AUTO
            THEN SentInOrder(r, log, circulate(1), speed(code))
        ELSE SentOnce(r, log, speed(code))

CentralFanCommand(e, r) ==
    /\ ~e.is_wall_unit
    /\ r.kind = "command"
    /\ r.op = "set_fan_mode"
    /\ r.args[1] \in {FAN_ON, FAN_AUTO, FAN_SCHEDULE, FAN_LOW, FAN_MEDIUM, FAN_HIGH}

\* C24: set_fan_mode on a Central device with Low, Medium or High: if the fan
\* was in Auto, a circulate-mode mutation to "on" is issued first and then
\* the discrete speed mutation; in every case the speed mutation is issued
\* exactly once and last; On, Auto and Schedule issue only the
\* circulate-mode mutation, with codes 1, 0 and 2.
C24_CentralFanMutations ==
    [][CentralFanCommand(ent, ret') => FanIssued(ent, ret'.args[1], ret', http')]_vars

\* the same, of the commands whose PUTs were all answered something other
\* than 401 authorization_expired
C24_CentralFanMutationsNoExpiry ==
    [][(/\ CentralFanCommand(ent, ret')
        /\ \A i \in 1..Len(Puts') : Puts'[i].status # "401_expired")
       => FanIssued(ent, ret'.args[1], ret', http')]_vars

\* a speed was commanded while the fan was in Auto: circulate on, then the speed
C24_Witness ==
    /\ ret.kind = "command"
    /\ ret.op = "set_fan_mode"
    /\ SentInOrder(ret, http, [fanCirculate |-> 1], [fanCirculateSpeed |-> 1])

C24_WitnessSpeedOnly ==
    /\ ret.kind = "command"
    /\ ret.op = "set_fan_mode"
    /\ SentOnce(ret, http, [fanCirculateSpeed |-> 2])

\* a preset of the Central family was commanded, and the command ended
\* without an exception
CentralPresetCommanded(e, r) ==
    /\ ~e.is_wall_unit
    /\ r.kind = "command"
    /\ r.op = "set_preset_mode"
    /\ r.args[1] \in {PRESET_AWAY, PRESET_SCHEDULE, PRESET_MANUAL, PRESET_TEMP_HOLD}
    /\ ~Raises(r)

\* C25: after set_preset_mode(P) on a Central device, for every P among Away,
\* Schedule, Manual and TempHold and every prior preset, the preset re-derived
\* from the locally cached record (as on the entity's next state refresh
\* while the poll is suppressed) equals P.
C25_PresetRoundTrip ==
    [][CentralPresetCommanded(ent, ret')
       => apply_thermostat_state(thermostats'[ret'.index + 1]).preset_mode
              = ret'.args[1]]_vars

\* the same for the presets other than Schedule, commanded on an entity whose
\* preset was the one its record resolved to
C25_PresetRoundTripButSchedule ==
    [][(/\ CentralPresetCommanded(ent, ret')
        /\ ret'.args[1] # PRESET_SCHEDULE
        /\ apply_thermostat_state(thermostats[ret'.index + 1]).preset_mode
                = ent.preset_mode)
       => apply_thermostat_state(thermostats'[ret'.index + 1]).preset_mode
              = ret'.args[1]]_vars

\* Schedule was commanded and the command issued both its mutations; the
\* entity reports Schedule and the cached record resolves to Manual
C25_WitnessLost ==
    /\ CentralPresetCommanded(ent, ret)
    /\ ret.args[1] = PRESET_SCHEDULE
    /\ AwayThenResume
    /\ ent.preset_mode = PRESET_SCHEDULE
    /\ apply_thermostat_state(CachedAfter).preset_mode = PRESET_MANUAL

\* a temporary hold was commanded on a device in Away, and the record resolves
\* to it
C25_WitnessTempHold ==
    /\ CentralPresetCommanded(ent, ret)
    /\ ret.args[1] = PRESET_TEMP_HOLD
    /\ Len(ret.calls) = 2
    /\ apply_thermostat_state(CachedAfter).preset_mode = PRESET_TEMP_HOLD


(***************************************************************************)
(* Further properties of the temperature command, under SpecTemperature    *)
(***************************************************************************)
\* a single temperature was commanded, and the command ended without an
\* exception
TemperatureCommanded(r) ==
    /\ r.kind = "command"
    /\ r.op = "set_temperature"
    /\ Has(TemperatureArgs(r), "temperature")
    /\ ~Raises(r)

\* C26: after set_temperature(temperature=T) on a Central device in Heat
\* (respectively Cool) mode, the entity's target_temperature reads T, both
\* immediately after the command and after the next state refresh from the
\* cached record while the poll is suppressed.
C26_TargetReadsBack ==
    [][(/\ ~ent.is_wall_unit
        /\ ent.hvac_mode \in {HVAC_HEAT, HVAC_COOL}
        /\ TemperatureCommanded(ret'))
       => /\ target_temperature(ent') = TemperatureArgs(ret')["temperature"]
          /\ target_temperature(EntityOf(thermostats'))
                = TemperatureArgs(ret')["temperature"]]_vars

\* the hold was sent with the temperature asked for, the entity reads no
\* target, and its record resolves to the target it had before
C26_WitnessLost ==
    /\ ~ent.is_wall_unit
    /\ ent.hvac_mode = HVAC_HEAT
    /\ TemperatureCommanded(ret)
    /\ SentOnce(ret, http, [hspHome |-> 2250, cspHome |-> raw["cspHome"],
                            schedOverride |-> 0, schedEnabled |-> FALSE])
    /\ target_temperature(ent) = None
    /\ target_temperature(EntityOf(thermostats)) = raw["hspActive"]

\* the temperature command recorded in r left the mode of the device as it
\* was: the mode resolved from the record before and after, and the record's
\* mode field
ModeKept(before, after) ==
    /\ apply_thermostat_state(after).hvac_mode = apply_thermostat_state(before).hvac_mode
    /\ Get(after, "mode", None) = Get(before, "mode", None)

WallTemperatureCommand(e, r) ==
    e.is_wall_unit /\ r.kind = "command" /\ r.op = "set_temperature"

\* C27: set_temperature on a wall unit never changes the device's operating
\* mode: for every current mode (Off, Heat, Cool, Auto, FanOnly), the mode
\* resolved from the cached record after the command equals the mode resolved
\* before it, and the cached mode field is unchanged.
C27_TemperatureKeepsMode ==
    [][(/\ WallTemperatureCommand(ent, ret')
        /\ ent.hvac_mode \in {HVAC_OFF, HVAC_HEAT, HVAC_COOL, HVAC_AUTO, HVAC_FAN_ONLY})
       => ModeKept(thermostats[ret'.index + 1], thermostats'[ret'.index + 1])]_vars

\* the same for the modes other than FanOnly
C27_TemperatureKeepsModeButFanOnly ==
    [][(/\ WallTemperatureCommand(ent, ret')
        /\ ent.hvac_mode \in {HVAC_OFF, HVAC_HEAT, HVAC_COOL, HVAC_AUTO})
       => ModeKept(thermostats[ret'.index + 1], thermostats'[ret'.index + 1])]_vars

\* a temperature was commanded on a wall unit in FanOnly and answered, and
\* the record now resolves to Off
C27_WitnessFanOnlyLost ==
    /\ WallTemperatureCommand(ent, ret)
    /\ ~Raises(ret)
    /\ ent.hvac_mode = HVAC_FAN_ONLY
    /\ raw["iduOperatingMode"] = WALL_UNIT_FAN_MODE_DEFAULT
    /\ CachedAfter["mode"] = DAIKIN_HVAC_MODE_OFF
    /\ apply_thermostat_state(CachedAfter).hvac_mode = HVAC_OFF

\* a temperature was commanded on a wall unit in Auto, and its mode was kept
C27_WitnessAutoKept ==
    /\ WallTemperatureCommand(ent, ret)
    /\ ent.hvac_mode = HVAC_AUTO
    /\ SentOnce(ret, http, [oduPowerfulOperationRequest |-> FALSE, iduAutoSetpoint |-> 2250])
    /\ apply_thermostat_state(CachedAfter).hvac_mode = HVAC_AUTO


(***************************************************************************)
(* The reported fan mode, under SpecEntity                                 *)
(***************************************************************************)
\* the fan mode entity e reports is none, or one of the fan modes it lists
FanModeListed(e) ==
    e.fan_mode = NoneStr \/ \E i \in DOMAIN e.fan_modes : e.fan_modes[i] = e.fan_mode

\* C28: in every reachable entity state, after state refreshes and after any
\* accepted set_fan_mode command of either family, the reported fan_mode is
\* either none or a member of the reported fan_modes list.
C28_FanModeListed == FanModeListed(ent)

\* the same after every state refresh, and in every state of a Central entity
C28_ListedAfterRefresh ==
    [][(ret'.kind = "update" /\ ~Raises(ret')) => FanModeListed(ent')]_vars

C28_ListedOnCentral == ~ent.is_wall_unit => FanModeListed(ent)

\* the speed labelled low was commanded on a wall unit and sent; the entity
\* reports the fan mode "3", which it does not list
C28_WitnessUnlisted ==
    /\ ent.is_wall_unit
    /\ Commanded("set_fan_mode", WALL_UNIT_FAN_SPEED_TO_HASS(3))
    /\ SentOnce(ret, http, [iduCoolFanSpeed |-> 3])
    /\ ent.fan_mode = "3"
    /\ ~FanModeListed(ent)


(***************************************************************************)
(* An account whose devices come and go, polled: each poll is answered     *)
(* with the devices the account then holds, in the order the vendor lists  *)
(* them.                                                                   *)
(***************************************************************************)
AccountLists ==
    {<<>>, <<HarnessEntry>>, <<SecondEntry>>, <<HarnessEntry, SecondEntry>>,
     <<SecondEntry, HarnessEntry>>}

\* the record of a listed device, its room warmer by rise hundredths of a degree
AccountRecord(entry, rise) ==
    IF entry = HarnessEntry
        THEN Put(ServedCentral, "tempIndoor", ServedCentral["tempIndoor"] + rise)
        ELSE Put(ServedWallUnit, "iduRoomTemp", ServedWallUnit["iduRoomTemp"] + rise)

\* what the vendor API answers during one poll of the account
AccountServers ==
    {[devices |-> d, list |-> <<HarnessEntry>>,
      detail |-> <<[kind |-> "ok", data |-> ServedCentral]>>] : d \in {"conn", "401"}}
    \cup UNION {{[devices |-> "200", list |-> list,
                  detail |-> [i \in DOMAIN list |->
                                 [kind |-> kinds[i],
                                  data |-> AccountRecord(list[i], rise)]]] :
                    kinds \in [DOMAIN list -> {"ok", "offline", "500"}],
                    rise \in {0, 50}} :
                list \in AccountLists}

PollAccount ==
    /\ ret = Idle
    /\ \E srv \in AccountServers :
        Commit("update", "update", None, <<>>, update(Client, srv), FALSE, srv)

NextAccount == PollAccount \/ Return

SpecAccount == ClientInit(ServedCentral, {FALSE}) /\ [][NextAccount]_vars

\* C29: across any sequence of polls (successful, failing, with devices
\* offline, added to or removed from the account), a record placed at index i
\* of the client's device list keeps the same device id at index i forever,
\* and no two entries of the list share an id.
C29_IndexKeepsDevice ==
    /\ [][\A i \in DOMAIN thermostats :
            i \in DOMAIN thermostats' /\ thermostats'[i]["id"] = thermostats[i]["id"]]_vars
    /\ [](\A i, j \in DOMAIN thermostats :
            thermostats[i]["id"] = thermostats[j]["id"] => i = j)

\* the second device was stored first, the first device second, and a poll of
\* an account that no longer holds the second device has been answered
C29_Witness ==
    /\ Len(thermostats) = 2
    /\ thermostats[1]["id"] = SecondEntry.id
    /\ thermostats[2]["id"] = HarnessEntry.id
    /\ ret.kind = "update"
    /\ ret.result = "ok"
    /\ ret.srv.list = <<HarnessEntry>>

\* C30: a poll that fails (the device-list request or a device-detail request
\* ends in a raised error) leaves the client's cached device list exactly as
\* it was before the poll: no device record is replaced by a partially
\* completed poll.
C30_FailedPollKeepsCache ==
    [][(ret'.kind = "update" /\ Raises(ret')) => thermostats' = thermostats]_vars

\* the same for the polls whose device-list request fails
C30_FailedListKeepsCache ==
    [][(ret'.kind = "update" /\ Raises(ret') /\ ret'.srv.devices # "200")
       => thermostats' = thermostats]_vars

\* a poll raised at the detail of the second listed device, and the record of
\* the first is the one this poll fetched
C30_WitnessPartial ==
    /\ ret.kind = "update"
    /\ Raises(ret)
    /\ ret.srv.list = <<HarnessEntry, SecondEntry>>
    /\ ret.srv.detail[1].kind = "ok"
    /\ ret.srv.detail[2].kind = "500"
    /\ ret.srv.detail[1].data["tempIndoor"] # ServedCentral["tempIndoor"]
    /\ Len(thermostats) = 2
    /\ thermostats[1]["tempIndoor"] = ret.srv.detail[1].data["tempIndoor"]

====
